---- MODULE Spec2Model ----
(***************************************************************************)
(* A model of the CSS selector engine of tns-core-modules/ui/styling:      *)
(* css-selector.ts (selector classes, createSelector, RuleSet,             *)
(* SelectorsMap).                                                          *)
(*                                                                         *)
(* Representation.  A program string on which the code computes (a type   *)
(* name, an id, a class name, an attribute value) is a tuple of one-       *)
(* character strings, <<"b","t","n">>.  The members of a closed            *)
(* enumeration (a combinator, an attribute test, a property name, a kind   *)
(* of selector) are TLA+ strings.  An object reference is an index: a      *)
(* node is its index in tree, a top-level selector is the pair             *)
(* <<rule set index, index in the group>>.                                 *)
(***************************************************************************)
EXTENDS Integers, Sequences, FiniteSets, TLC

VARIABLES
    astRules,      \* the parsed style sheet handed to fromAstNodes
    rulesets,      \* RuleSet[]: the result of fromAstNodes
    selectorsMap,  \* the SelectorsMap built from rulesets
    tree,          \* the nodes: tree[n] is node n, tree[n].parent its parent
    result,        \* what the last operation returned
    pc,            \* which object exists: "css", "rulesets", "ready"
    view,          \* the view a rule is applied to: its property values and
                   \* its registered animations
    plays,         \* the play() promise of every animation started
    cssSelector,   \* the CssSelector holding a rule's declarations
    file,          \* a File of the file system: its _path and _locked
    accessors,     \* the FileReader and FileWriter objects made so far
    fileAccess     \* what the FileSystemAccess reports when it is asked

\* the file-system objects
fsVars == <<file, accessors, fileAccess>>

vars ==
    <<astRules, rulesets, selectorsMap, tree, result, pc, view, plays, cssSelector,
      file, accessors, fileAccess>>

-----------------------------------------------------------------------------
(* JavaScript values *)

\* undefined where a program string is expected (no character is this long)
Undefined == <<"undefined">>

\* undefined where a combinator or an attribute test is expected
NoValue == "undefined"

\* the absent parent of a root node
NoParent == 0

-----------------------------------------------------------------------------
(* const enum Specificity, const enum Rarity *)

\* Id one hexadecimal digit short: 0x1000
SpecificityIdNarrow == 16 * 256

SpecificityId == 65536
SpecificityAttribute == 256
SpecificityClass == 256
SpecificityPseudoClass == 256
SpecificityType == 1
SpecificityUniversal == 0
SpecificityInvalid == 0

RarityInvalid == 4
RarityId == 3
RarityClass == 2
RarityType == 1
RarityPseudoClass == 0
RarityAttribute == 0
RarityUniversal == 0

-----------------------------------------------------------------------------
(* String helpers: String.prototype.toLowerCase, replace(/-/, '') *)

UpperCase == <<"A","B","C","D","E","F","G","H","I","J","K","L","M",
               "N","O","P","Q","R","S","T","U","V","W","X","Y","Z">>
LowerCase == <<"a","b","c","d","e","f","g","h","i","j","k","l","m",
               "n","o","p","q","r","s","t","u","v","w","x","y","z">>

toLowerCaseChar(c) ==
    IF \E i \in DOMAIN UpperCase : UpperCase[i] = c
    THEN LowerCase[CHOOSE i \in DOMAIN UpperCase : UpperCase[i] = c]
    ELSE c

toLowerCase(s) == [i \in DOMAIN s |-> toLowerCaseChar(s[i])]

\* the name with its dashes left in
replaceNoDash(s) == s

\* s.replace(/-/, ''): the regular expression has no g flag, so only the
\* first dash is replaced
replaceDash(s) ==
    IF \E i \in DOMAIN s : s[i] = "-"
    THEN LET i == CHOOSE k \in DOMAIN s :
                     s[k] = "-" /\ \A j \in 1..(k - 1) : s[j] # "-"
         IN  SubSeq(s, 1, i - 1) \o SubSeq(s, i + 1, Len(s))
    ELSE s

-----------------------------------------------------------------------------
(* The selector classes.  A selector object is a record; kind names its     *)
(* class, and specificity, rarity and combinator are the properties the     *)
(* SelProps decorator puts on the prototype (combinator "").                *)

UniversalSelector ==
    [kind |-> "universal", specificity |-> SpecificityUniversal,
     rarity |-> RarityUniversal, combinator |-> ""]

InvalidSelector ==
    [kind |-> "invalid", specificity |-> SpecificityInvalid,
     rarity |-> RarityInvalid, combinator |-> ""]

IdSelector(id) ==
    [kind |-> "id", id |-> id, specificity |-> SpecificityId,
     rarity |-> RarityId, combinator |-> ""]

TypeSelector(cssType) ==
    [kind |-> "type", cssType |-> cssType, specificity |-> SpecificityType,
     rarity |-> RarityType, combinator |-> ""]

ClassSelector(cssClass) ==
    [kind |-> "class", cssClass |-> cssClass, specificity |-> SpecificityClass,
     rarity |-> RarityClass, combinator |-> ""]

PseudoClassSelector(cssPseudoClass) ==
    [kind |-> "pseudo", cssPseudoClass |-> cssPseudoClass,
     specificity |-> SpecificityPseudoClass, rarity |-> RarityPseudoClass,
     combinator |-> ""]

\* The class defines its own getters: specificity returns Specificity.Attribute
\* and rarity returns Specificity.Attribute as well (not Rarity.Attribute).
AttributeSelector(attribute, test, value) ==
    [kind |-> "attribute", attribute |-> attribute, test |-> test,
     value |-> value, specificity |-> SpecificityAttribute,
     rarity |-> SpecificityAttribute, combinator |-> ""]

\* the reduce keeping the last member's weight only
sumSpecificityLastOnly(selectors) ==
    IF selectors = << >> THEN 0
    ELSE selectors[Len(selectors)].specificity

RECURSIVE sumRange(_, _, _)
\* the sum of the specificities of selectors[lo..hi], halving the range (the
\* sums stay far below 2^53, so the order of the additions does not matter)
sumRange(selectors, lo, hi) ==
    IF lo > hi THEN 0
    ELSE IF lo = hi THEN selectors[lo].specificity
    ELSE LET mid == (lo + hi) \div 2
         IN  sumRange(selectors, lo, mid) + sumRange(selectors, mid + 1, hi)

\* selectors.reduce((sum, sel) => sel.specificity + sum, 0)
sumSpecificity(selectors) == sumRange(selectors, 1, Len(selectors))

RECURSIVE reduceRange(_, _, _)
\* the index the reduce below ends with over selectors[lo..hi], halving the
\* range: a later member replaces an earlier one only when strictly rarer
reduceRange(selectors, lo, hi) ==
    IF lo = hi THEN lo
    ELSE LET mid == (lo + hi) \div 2
             l == reduceRange(selectors, lo, mid)
             r == reduceRange(selectors, mid + 1, hi)
         IN  IF selectors[r].rarity > selectors[l].rarity THEN r ELSE l

\* selectors.reduce((prev, curr) =>
\*     !prev || (curr.rarity > prev.rarity) ? curr : prev, null):
\* i is the index of prev (0 for null), k the index of curr
reduceHead(selectors, i, k) ==
    IF k > Len(selectors) THEN i
    ELSE LET rest == reduceRange(selectors, k, Len(selectors))
         IN  IF i = 0 \/ selectors[rest].rarity > selectors[i].rarity
             THEN rest ELSE i

SimpleSelectorSequence(selectors) ==
    [kind |-> "sequence", selectors |-> selectors,
     specificity |-> sumSpecificity(selectors),
     head |-> selectors[reduceHead(selectors, 0, 1)],
     rarity |-> RarityUniversal, combinator |-> ""]

\* Array.prototype.reverse
reverse(s) == [i \in 1..Len(s) |-> s[Len(s) + 1 - i]]

\* selectors.reverse() reverses the argument in place and returns it, so the
\* public field and selectorsReversed are the same reversed array
Selector(selectors) ==
    [kind |-> "selector", selectors |-> reverse(selectors),
     selectorsReversed |-> reverse(selectors),
     specificity |-> sumSpecificity(reverse(selectors)),
     rarity |-> RarityUniversal, combinator |-> ""]

-----------------------------------------------------------------------------
(* match *)

\* node[attribute]: a node holds its attributes in attrs
Prop(node, attribute) ==
    IF attribute \in DOMAIN node.attrs THEN node.attrs[attribute] ELSE Undefined

\* isNullOrUndefined
isNullOrUndefined(v) == v = Undefined

\* v + ""
asString(v) ==
    IF v = Undefined THEN <<"u","n","d","e","f","i","n","e","d">> ELSE v

\* /\s/
IsSpace(c) == c = " "

\* the literal v occurs in a at position i (v escaped by escapeRegexSymbols)
OccursAt(a, v, i) ==
    /\ i >= 1
    /\ i + Len(v) - 1 <= Len(a)
    /\ SubSeq(a, i, i + Len(v) - 1) = v

\* regexp.test(a) for the regular expression the constructor builds for test
regexpTest(test, v, a) ==
    CASE test = "^=" -> OccursAt(a, v, 1)
      [] test = "$=" -> OccursAt(a, v, Len(a) - Len(v) + 1)
      [] test = "*=" -> \E i \in 1..(Len(a) + 1) : OccursAt(a, v, i)
      [] test = "="  -> a = v
      [] test = "~=" -> \E i \in 1..(Len(a) + 1) :
                            /\ OccursAt(a, v, i)
                            /\ (i = 1 \/ IsSpace(a[i - 1]))
                            /\ (i + Len(v) = Len(a) + 1 \/ IsSpace(a[i + Len(v)]))
      [] test = "|=" -> /\ OccursAt(a, v, 1)
                        /\ (Len(a) = Len(v) \/ a[Len(v) + 1] = "-")
      [] OTHER -> FALSE

\* The matcher the AttributeSelector constructor installs.  With an empty
\* value it first installs node => false and then goes on to build the
\* regular expression and installs the regexp matcher over it.
attributeMatch(sel, node) ==
    IF sel.test = NoValue
    THEN ~isNullOrUndefined(Prop(node, sel.attribute))
    ELSE IF sel.test = "~=" /\ \E i \in DOMAIN sel.value : IsSpace(sel.value[i])
         THEN FALSE
         ELSE IF sel.test \in {"^=", "$=", "*=", "=", "~=", "|="}
              THEN regexpTest(sel.test, sel.value, asString(Prop(node, sel.attribute)))
              ELSE FALSE

\* match of the SimpleSelector classes
simpleMatch(sel, node) ==
    CASE sel.kind = "invalid"   -> FALSE
      [] sel.kind = "universal" -> TRUE
      [] sel.kind = "id"        -> node.id = sel.id
      [] sel.kind = "type"      -> node.cssType = sel.cssType
      [] sel.kind = "class"     -> sel.cssClass \in node.cssClasses
      [] sel.kind = "pseudo"    -> sel.cssPseudoClass \in node.cssPseudoClasses
      [] sel.kind = "attribute" -> attributeMatch(sel, node)

\* SimpleSelectorSequence.match: this.selectors.every(sel => sel.match(node))
sequenceMatch(sel, node) ==
    \A i \in DOMAIN sel.selectors : simpleMatch(sel.selectors[i], node)

\* sel.match(node) for a member of a Selector: a SimpleSelector or a sequence
partMatch(sel, node) ==
    IF sel.kind = "sequence" THEN sequenceMatch(sel, node) ELSE simpleMatch(sel, node)

\* what a call did: returned a value, or threw
Returned(v) == [threw |-> FALSE, value |-> v]
Thrown == [threw |-> TRUE, value |-> FALSE]

\* the walk stopping after the immediate parent
walkAncestorsParentOnly(sel, t, n) ==
    LET p == t[n].parent
    IN  IF p # NoParent /\ partMatch(sel, t[p]) THEN p ELSE NoParent

RECURSIVE walkAncestors(_, _, _)
\* while (node = node.parent) { if (sel.match(node)) return true; } return false:
\* the ancestor the loop stops at, NoParent when it runs out of parents
walkAncestors(sel, t, n) ==
    LET p == t[n].parent
    IN  IF p = NoParent THEN NoParent
        ELSE IF partMatch(sel, t[p]) THEN p
        ELSE walkAncestors(sel, t, p)

RECURSIVE everyFrom(_, _, _, _)
\* the loop with the child combinator falling through to the ancestor walk
everyFromChildWalks(parts, i, t, n) ==
    IF i > Len(parts) THEN Returned(TRUE)
    ELSE LET sel == parts[i]
         IN  CASE sel.combinator = NoValue ->
                    IF partMatch(sel, t[n])
                    THEN everyFrom(parts, i + 1, t, n)
                    ELSE Returned(FALSE)
               [] sel.combinator \in {">", " "} ->
                    LET a == walkAncestors(sel, t, n)
                    IN  IF a # NoParent
                        THEN everyFrom(parts, i + 1, t, a)
                        ELSE Returned(FALSE)
               [] OTHER -> Thrown

\* this.selectorsReversed.every(sel => ...) from member i on, with the
\* closure's node variable at n
everyFrom(parts, i, t, n) ==
    IF i > Len(parts) THEN Returned(TRUE)
    ELSE LET sel == parts[i]
         IN  CASE sel.combinator = NoValue ->
                    IF partMatch(sel, t[n])
                    THEN everyFrom(parts, i + 1, t, n)
                    ELSE Returned(FALSE)
               [] sel.combinator = ">" ->
                    LET p == t[n].parent
                    IN  IF p # NoParent /\ partMatch(sel, t[p])
                        THEN everyFrom(parts, i + 1, t, p)
                        ELSE Returned(FALSE)
               [] sel.combinator = " " ->
                    LET a == walkAncestors(sel, t, n)
                    IN  IF a # NoParent
                        THEN everyFrom(parts, i + 1, t, a)
                        ELSE Returned(FALSE)
               [] OTHER -> Thrown

\* sel.match(node) for any selector object
match(sel, t, n) ==
    IF sel.kind = "selector"
    THEN everyFrom(sel.selectorsReversed, 1, t, n)
    ELSE Returned(partMatch(sel, t[n]))

-----------------------------------------------------------------------------
(* createSelector.  The selector text is modelled by what                   *)
(* selectorParser.parse makes of it: parsed.threw when parse throws, else    *)
(* parsed.ast, the list of simple-selector tokens, each with the combinator  *)
(* that follows it (comb, NoValue when none follows).                        *)

createSimpleSelector(sel) ==
    CASE sel.kind = "universal" -> UniversalSelector
      [] sel.kind = "id"        -> IdSelector(sel.ident)
      [] sel.kind = "type"      -> TypeSelector(toLowerCase(replaceDash(sel.ident)))
      [] sel.kind = "class"     -> ClassSelector(sel.ident)
      [] sel.kind = "pseudo"    -> PseudoClassSelector(sel.ident)
      [] sel.kind = "attribute" ->
            IF sel.test # NoValue
            THEN AttributeSelector(sel.prop, sel.test, sel.value)
            ELSE AttributeSelector(sel.prop, NoValue, Undefined)

\* the for loop of createSelector ("Join simple selectors into sequences, set
\* combinators"), indices from 1, from the state it is in before the
\* iteration for seqEnd: a sequence ends at every token that has a combinator
\* and at the last token, and starts after the end before it
joinSequences(ast, selectors, seqStart, seqEnd, sequences) ==
    LET last == Len(selectors)
        isEnd(k) == ast[k].comb # NoValue \/ k = last
        startOf(k) ==
            LET before == {e \in seqEnd..(k - 1) : isEnd(e)}
            IN  IF before = {} THEN seqStart
                ELSE 1 + CHOOSE e \in before : \A x \in before : x <= e
        made(k) ==
            IF ~isEnd(k) THEN [kind |-> "joined"]
            ELSE IF startOf(k) = k
            THEN [selectors[k] EXCEPT !.combinator = ast[k].comb]
            ELSE [SimpleSelectorSequence(SubSeq(selectors, startOf(k), k))
                     EXCEPT !.combinator = ast[k].comb]
        pushed(x) == x.kind # "joined"
    IN  sequences \o
            SelectSeq([i \in 1..(last - seqEnd + 1) |-> made(seqEnd + i - 1)], pushed)

createSelector(parsed) ==
    IF parsed.threw THEN InvalidSelector
    ELSE IF Len(parsed.ast) = 0 THEN InvalidSelector
    ELSE LET selectors == [i \in DOMAIN parsed.ast |-> createSimpleSelector(parsed.ast[i])]
             sequences == joinSequences(parsed.ast, selectors, 1, 1, << >>)
         IN  IF Len(sequences) = 1 THEN sequences[1] ELSE Selector(sequences)

-----------------------------------------------------------------------------
(* RuleSet, fromAstNodes *)

\* new RuleSet(selectors, declarations) as element r of the RuleSet array:
\* the constructor sets sel.ruleset = this on every selector of the group
RuleSet(selectors, declarations, r) ==
    [selectors |-> [g \in DOMAIN selectors |-> [ruleset |-> r] @@ selectors[g]],
     declarations |-> declarations]

isRule(node) == node.type = "rule"
isDeclaration(node) == node.type = "declaration"

\* { property: decl.property.toLowerCase(), value: decl.value }
createDeclaration(decl) ==
    [property |-> toLowerCase(decl.property), value |-> decl.value]

fromAstNodes(rules) ==
    LET kept == SelectSeq(rules, isRule)
    IN  [r \in DOMAIN kept |->
            LET decls == SelectSeq(kept[r].declarations, isDeclaration)
            IN  RuleSet([g \in DOMAIN kept[r].selectors |->
                            createSelector(kept[r].selectors[g])],
                        [d \in DOMAIN decls |-> createDeclaration(decls[d])], r)]

\* the selector object behind a reference <<rule set, index in the group>>
Deref(rs, ref) == rs[ref[1]].selectors[ref[2]]

\* the references of all top-level selectors of rs
Refs(rs) == UNION {{<<r, g>> : g \in DOMAIN rs[r].selectors} : r \in DOMAIN rs}

-----------------------------------------------------------------------------
(* lookupSort and SelectorsMap *)

\* lookupSort with a sequence left to the lookupSort of SelectorCore, which
\* files as universal
lookupSortInherited(sel) ==
    CASE sel.kind = "invalid"  -> [bucket |-> "none", key |-> Undefined]
      [] sel.kind = "id"       -> [bucket |-> "id", key |-> sel.id]
      [] sel.kind = "type"     -> [bucket |-> "type", key |-> sel.cssType]
      [] sel.kind = "class"    -> [bucket |-> "class", key |-> sel.cssClass]
      [] OTHER                 -> [bucket |-> "universal", key |-> Undefined]

RECURSIVE lookupSort(_)
\* The sorter method that sel.lookupSort(sorter, base) ends in, and its key:
\* the lookupSort of each class, down to the simple selector that files
lookupSort(sel) ==
    CASE sel.kind = "invalid"  -> [bucket |-> "none", key |-> Undefined]
      [] sel.kind = "id"       -> [bucket |-> "id", key |-> sel.id]
      [] sel.kind = "type"     -> [bucket |-> "type", key |-> sel.cssType]
      [] sel.kind = "class"    -> [bucket |-> "class", key |-> sel.cssClass]
      [] sel.kind \in {"universal", "attribute", "pseudo"} ->
                                  [bucket |-> "universal", key |-> Undefined]
      [] sel.kind = "sequence" -> lookupSort(sel.head)
      [] sel.kind = "selector" -> lookupSort(sel.selectorsReversed[1])

\* a SelectorMap without own keys: the object literal {}
EmptyMap == [k \in {} |-> << >>]

\* A SelectorMap is a plain object, so map[key] for a key it does not own
\* reads Object.prototype: the names below read as a function there (the
\* other members of Object.prototype behave like this one)
ObjectPrototypeKeys == {<<"c","o","n","s","t","r","u","c","t","o","r">>}

\* the property name a key is read under (an undefined key reads "undefined")
propertyName(key) == asString(key)

isOwn(map, key) == propertyName(key) \in DOMAIN map
isInherited(map, key) ==
    ~isOwn(map, key) /\ propertyName(key) \in ObjectPrototypeKeys

\* the fields of a new SelectorsMap before its constructor body runs
EmptySelectorsMap ==
    [id |-> EmptyMap, class |-> EmptyMap, type |-> EmptyMap,
     universal |-> << >>, position |-> 0]

\* makeDocSelector: { sel, pos: this.position++ }
makeDocSelector(position, sel) == [sel |-> sel, pos |-> position]

\* addToMap on one of the three keyed maps, after its this.position++:
\* let list = map[head]; if (list) list.push(doc) else map[head] = [doc].
\* An inherited map[head] is truthy and has no push: the call throws.
addToMap(map, position, head, sel) ==
    LET doc == makeDocSelector(position, sel)
    IN  IF isOwn(map, head)
        THEN Returned([map EXCEPT ![propertyName(head)] = Append(@, doc)])
        ELSE IF isInherited(map, head)
             THEN Thrown
             ELSE Returned(map @@ (propertyName(head) :> <<doc>>))

\* the reference that is undefined: no selector, no base
NoRef == <<0, 0>>

\* the reference of a part of the selector with reference path
Inner(path) == Append(path, 1)

RECURSIVE lookupBase(_, _, _)
\* The selector that sel.lookupSort(sorter, base) hands the sorter, sel being
\* the selector with reference path and base NoRef when no base is given: a
\* simple selector hands base || this, a sequence calls its head with
\* base || this, a Selector calls its first reversed member with this
lookupBase(sel, path, base) ==
    CASE sel.kind = "sequence" ->
             lookupBase(sel.head, Inner(path), IF base # NoRef THEN base ELSE path)
      [] sel.kind = "selector" ->
             lookupBase(sel.selectorsReversed[1], Inner(path), path)
      [] OTHER -> IF base # NoRef THEN base ELSE path

\* sel.lookupSort(sorter) for the top-level selector sel with reference ref:
\* one of sortById, sortByClass, sortByType, sortAsUniversal, or nothing.
\* The three keyed sorters go through addToMap, which counts position twice
\* (its own this.position++ and that of makeDocSelector).
fileSelector(sm, sel, ref) ==
    LET to == lookupSort(sel)
        which == IF to.bucket = "id" THEN sm.id
                 ELSE IF to.bucket = "class" THEN sm.class ELSE sm.type
        base == lookupBase(sel, ref, NoRef)
        added == addToMap(which, sm.position + 1, to.key, base)
    IN  CASE to.bucket = "none" -> Returned(sm)
          [] to.bucket = "universal" ->
                Returned([sm EXCEPT
                    !.universal = Append(@, makeDocSelector(sm.position, base)),
                    !.position = @ + 1])
          [] to.bucket \in {"id", "class", "type"} /\ added.threw -> Thrown
          [] to.bucket = "id" /\ ~added.threw ->
                Returned([sm EXCEPT !.id = added.value, !.position = @ + 2])
          [] to.bucket = "class" /\ ~added.threw ->
                Returned([sm EXCEPT !.class = added.value, !.position = @ + 2])
          [] to.bucket = "type" /\ ~added.threw ->
                Returned([sm EXCEPT !.type = added.value, !.position = @ + 2])

RECURSIVE ruleLookupSort(_, _, _, _)
\* RuleSet.lookupSort: this.selectors.forEach(sel => sel.lookupSort(sorter)),
\* from selector g on
ruleLookupSort(sm, rs, r, g) ==
    IF g > Len(rs[r].selectors) THEN Returned(sm)
    ELSE LET filed == fileSelector(sm, rs[r].selectors[g], <<r, g>>)
         IN  IF filed.threw THEN Thrown
             ELSE ruleLookupSort(filed.value, rs, r, g + 1)

RECURSIVE forEachRule(_, _, _)
\* rulesets.forEach(rule => rule.lookupSort(this)), from rule r on
forEachRule(sm, rs, r) ==
    IF r > Len(rs) THEN Returned(sm)
    ELSE LET sorted == ruleLookupSort(sm, rs, r, 1)
         IN  IF sorted.threw THEN Thrown
             ELSE forEachRule(sorted.value, rs, r + 1)

\* new SelectorsMap(rulesets)
SelectorsMap(rs) == forEachRule(EmptySelectorsMap, rs, 1)

\* what stands in a list for a value that is no SelectorInDocument (the
\* function read from Object.prototype): its sel is undefined
NotADoc == [sel |-> NoRef, pos |-> 0]

\* map[key] as query uses it: the own list, <<NotADoc>> for an inherited
\* value (concat appends it as one element), << >> for undefined (dropped by
\* filter(arr => !!arr))
lookup(map, key) ==
    IF isOwn(map, key) THEN map[propertyName(key)]
    ELSE IF isInherited(map, key) THEN <<NotADoc>>
    ELSE << >>

RECURSIVE setToSeq(_)
\* the members of a Set in the order forEach visits them
setToSeq(S) ==
    IF S = {} THEN << >>
    ELSE LET x == CHOOSE y \in S : TRUE IN <<x>> \o setToSeq(S \ {x})

RECURSIVE concatAll(_)
\* reduce((cur, next) => cur.concat(next), [])
concatAll(lists) ==
    IF lists = << >> THEN << >> ELSE Head(lists) \o concatAll(Tail(lists))

\* the comparator with the position tie-break the wrong way round
compareDocsLatestFirst(rs, a, b) ==
    LET d == Deref(rs, a.sel).specificity - Deref(rs, b.sel).specificity
    IN  IF d # 0 THEN d ELSE b.pos - a.pos

\* the comparator of query:
\* a.sel.specificity - b.sel.specificity || a.pos - b.pos
compareDocs(rs, a, b) ==
    LET d == Deref(rs, a.sel).specificity - Deref(rs, b.sel).specificity
    IN  IF d # 0 THEN d ELSE a.pos - b.pos

RECURSIVE insertDoc(_, _, _)
insertDoc(rs, sorted, doc) ==
    IF sorted = << >> THEN <<doc>>
    ELSE IF compareDocs(rs, doc, Head(sorted)) < 0
         THEN <<doc>> \o sorted
         ELSE <<Head(sorted)>> \o insertDoc(rs, Tail(sorted), doc)

RECURSIVE sortDocs(_, _)
\* Array.prototype.sort with compareDocs, as an insertion sort
sortDocs(rs, docs) ==
    IF docs = << >> THEN << >>
    ELSE insertDoc(rs, sortDocs(rs, Tail(docs)), Head(docs))

\* SelectorsMap.query(node).  Sorting two or more elements calls the
\* comparator on each of them, and it throws on an element whose sel is
\* undefined (a.sel.specificity); a single element is not compared.
query(sm, rs, node) ==
    LET classes == setToSeq(node.cssClasses)
        selectorClasses ==
            <<sm.universal, lookup(sm.id, node.id), lookup(sm.type, node.cssType)>>
            \o [i \in DOMAIN classes |-> lookup(sm.class, classes[i])]
        all == concatAll(selectorClasses)
    IN  IF Len(all) >= 2 /\ \E i \in DOMAIN all : all[i] = NotADoc
        THEN Thrown
        ELSE LET sorted == IF Len(all) >= 2 THEN sortDocs(rs, all) ELSE all
             IN  Returned([i \in DOMAIN sorted |-> sorted[i].sel])

\* the index left with the universal bucket sorted in place, as by a sort on
\* the bucket itself instead of on a copy
queryThenBucketSorted(sm, rs, node) ==
    [sm EXCEPT !.universal = sortDocs(rs, @)]

\* The index as query(node) leaves it.  query assigns no field of the map;
\* the array it sorts in place is the one reduce returns, made by
\* [].concat(...), never a bucket; position is not read.
queryThen(sm, rs, node) == sm

-----------------------------------------------------------------------------
(* The operations *)

NoResult ==
    [op |-> "none", node |-> 0, sel |-> NoRef, ret |-> Returned(<< >>)]

\* rulesets = fromAstNodes(astRules)
FromAstNodes ==
    /\ pc = "css"
    /\ rulesets' = fromAstNodes(astRules)
    /\ pc' = "rulesets"
    /\ UNCHANGED <<astRules, selectorsMap, tree, result, view, plays, cssSelector, fsVars>>

\* selectorsMap = new SelectorsMap(rulesets); when the constructor throws
\* there is no map
NewSelectorsMap ==
    /\ pc = "rulesets"
    /\ LET made == SelectorsMap(rulesets)
       IN  IF made.threw
           THEN pc' = "failed" /\ UNCHANGED selectorsMap
           ELSE pc' = "ready" /\ selectorsMap' = made.value
    /\ UNCHANGED <<astRules, rulesets, tree, result, view, plays, cssSelector, fsVars>>

\* selectorsMap.query(node) for a node of the tree
Query ==
    /\ pc = "ready"
    /\ \E n \in DOMAIN tree :
          /\ result' = [op |-> "query", node |-> n, sel |-> NoRef,
                        ret |-> query(selectorsMap, rulesets, tree[n])]
          /\ selectorsMap' = queryThen(selectorsMap, rulesets, tree[n])
    /\ UNCHANGED <<astRules, rulesets, tree, pc, view, plays, cssSelector, fsVars>>

\* the tree left with the node hung under its grandparent, as by a walk that
\* writes node.parent instead of the local variable
matchThenReparented(sel, t, n) ==
    IF sel.kind = "selector" /\ t[n].parent # NoParent
    THEN [t EXCEPT ![n].parent = t[t[n].parent].parent]
    ELSE t

\* The tree as sel.match(node) leaves it.  No match method writes a field of
\* a node or of a selector: Selector.match assigns node = node.parent to the
\* local variable of the call, and the matchers of AttributeSelector are
\* installed by its constructor.
matchThen(sel, t, n) == t

\* sel.match(node) for a top-level selector of the rule sets and a node
Match ==
    /\ pc = "rulesets"
    /\ \E ref \in Refs(rulesets), n \in DOMAIN tree :
          /\ result' = [op |-> "match", node |-> n, sel |-> ref,
                        ret |-> match(Deref(rulesets, ref), tree, n)]
          /\ tree' = matchThen(Deref(rulesets, ref), tree, n)
    /\ UNCHANGED <<astRules, rulesets, selectorsMap, pc, view, plays, cssSelector, fsVars>>

\* building and querying the index
Next == FromAstNodes \/ NewSelectorsMap \/ Query

\* compiling selectors and matching them
NextMatch == FromAstNodes \/ Match

-----------------------------------------------------------------------------
(* Inputs: style sheets and trees *)

Foo == <<"f","o","o">>
ClsA == <<"a">>
ClsB == <<"b">>
Btn == <<"b","t","n">>
Lbl == <<"l","b","l">>
Hover == <<"h","o","v","e","r">>
Constructor == <<"c","o","n","s","t","r","u","c","t","o","r">>
TitleX == <<"x">>

Tok(kind, ident, comb) ==
    [kind |-> kind, ident |-> ident, prop |-> NoValue, test |-> NoValue,
     value |-> Undefined, comb |-> comb]

AttrTok(prop, test, value, comb) ==
    [kind |-> "attribute", ident |-> Undefined, prop |-> prop, test |-> test,
     value |-> value, comb |-> comb]

\* the nodes of the parsed style sheet: a rule with its selector texts and
\* the nodes of its body, and a comment
RuleNode(selectors, declarations) ==
    [type |-> "rule", selectors |-> selectors, declarations |-> declarations]
CommentNode == [type |-> "comment"]

\* a declaration of a rule's body
DeclarationNode(property, value) ==
    [type |-> "declaration", property |-> property, value |-> value]

\* a view nothing was applied to, and no animation started
NoView ==
    [values |-> [p \in {} |-> << >>], registered |-> {},
     isLoaded |-> FALSE, hasNativeView |-> FALSE]
NoPlays == << >>
NoCssSelector ==
    [expression |-> Undefined, attrExpression |-> Undefined,
     declarations |-> << >>, animations |-> << >>]

\* no File object, no accessor, and a FileSystemAccess that is not asked
NoFile == [path |-> Undefined, locked |-> NoValue]
NoAccessors == << >>
NoFileAccess == [paths |-> << >>, fails |-> FALSE]

Parsed(ast) == [threw |-> FALSE, ast |-> ast]
ParseError == [threw |-> TRUE, ast |-> << >>]

Node(id, cssType, cssClasses, attrs, parent) ==
    [id |-> id, cssType |-> cssType, cssClasses |-> cssClasses,
     cssPseudoClasses |-> {}, attrs |-> attrs, parent |-> parent]

NoAttrs == [a \in {} |-> << >>]
HasTitle == [a \in {"title"} |-> TitleX]

\* most selectors a style sheet holds, most selectors of one group
MaxSelectors == 2
MaxGroup == 2

\* the selector texts of the style sheets
SheetTexts ==
    << Parsed(<<Tok("universal", Undefined, NoValue)>>),                  \* *
       Parsed(<<Tok("id", Foo, NoValue)>>),                               \* #foo
       Parsed(<<Tok("id", Foo, NoValue),
                AttrTok("title", NoValue, Undefined, NoValue)>>),         \* #foo[title]
       Parsed(<<Tok("type", <<"B","t","n">>, NoValue)>>),                 \* Btn
       Parsed(<<Tok("class", ClsA, NoValue)>>),                           \* .a
       Parsed(<<Tok("class", ClsB, NoValue),
                Tok("class", ClsA, NoValue)>>),                           \* .b.a
       Parsed(<<AttrTok("title", NoValue, Undefined, NoValue)>>),         \* [title]
       Parsed(<<Tok("type", Lbl, ">"), Tok("class", ClsA, NoValue)>>),    \* lbl > .a
       Parsed(<<Tok("id", Constructor, NoValue)>>),                       \* #constructor
       Parsed(<<Tok("type", Btn, NoValue), Tok("pseudo", Hover, NoValue)>>), \* btn:hover
       ParseError,                                                        \* [title
       Parsed(<< >>) >>                                                   \* (empty)

RECURSIVE SeqsUpTo(_, _)
\* the sequences over S of length at most n
SeqsUpTo(S, n) ==
    IF n = 0 THEN {<< >>}
    ELSE LET shorter == SeqsUpTo(S, n - 1)
         IN  shorter \cup {Append(q, x) : q \in {r \in shorter : Len(r) = n - 1}, x \in S}

RECURSIVE Groupings(_)
\* the ways to cut n selectors into consecutive groups of at most MaxGroup
Groupings(n) ==
    IF n = 0 THEN {<< >>}
    ELSE UNION {{<<k>> \o g : g \in Groupings(n - k)} :
                    k \in 1..(IF n < MaxGroup THEN n ELSE MaxGroup)}

RECURSIVE offset(_, _)
offset(sizes, r) == IF r = 1 THEN 0 ELSE sizes[r - 1] + offset(sizes, r - 1)

\* the style sheet with the texts of flat (indices into pool) cut as sizes says
Sheet(pool, flat, sizes) ==
    [r \in DOMAIN sizes |->
        RuleNode([g \in 1..sizes[r] |-> pool[flat[offset(sizes, r) + g]]], << >>)]

Sheets(pool, n) ==
    UNION {{Sheet(pool, flat, sizes) : sizes \in Groupings(Len(flat))} :
              flat \in SeqsUpTo(DOMAIN pool, n) \ {<< >>}}

\* the queried node, alone or under a parent
IndexTrees ==
    LET targets(parent) ==
            {Node(id, Btn, c, a, parent) :
                id \in {Undefined, Foo, Constructor},
                c \in {{}, {ClsA}, {ClsA, ClsB}}, a \in {NoAttrs, HasTitle}}
    IN  {<<n>> : n \in targets(NoParent)} \cup
        {<<Node(Undefined, Lbl, {}, NoAttrs, NoParent), n>> : n \in targets(1)}

Init ==
    /\ astRules \in Sheets(SheetTexts, MaxSelectors)
    /\ tree \in IndexTrees
    /\ rulesets = << >>
    /\ selectorsMap = EmptySelectorsMap
    /\ result = NoResult
    /\ view = NoView
    /\ plays = NoPlays
    /\ cssSelector = NoCssSelector
    /\ file = NoFile
    /\ accessors = NoAccessors
    /\ fileAccess = NoFileAccess
    /\ pc = "css"

Spec == Init /\ [][Next]_vars

-----------------------------------------------------------------------------
(* Chains of simple selectors matched in deeper trees *)

\* most simple selectors in a selector text, and the depth of the trees
MaxTokens == 2
MaxDepth == 3

\* the simple selectors a text is made of, and what may follow one
PartTokens(comb) ==
    {Tok("id", Foo, comb), Tok("type", Btn, comb), Tok("class", ClsA, comb),
     AttrTok("title", NoValue, Undefined, comb)}
Combinators == {NoValue, ">", " ", "+", "~"}

RECURSIVE TokenLists(_)
\* the token lists of exactly n tokens; nothing follows the last token
TokenLists(n) ==
    IF n = 1 THEN {<<t>> : t \in PartTokens(NoValue)}
    ELSE {<<t>> \o rest :
             t \in UNION {PartTokens(c) : c \in Combinators},
             rest \in TokenLists(n - 1)}

ChainTexts == {Parsed(ast) : ast \in UNION {TokenLists(n) : n \in 1..MaxTokens}}

\* a node matching every simple selector above, one matching none of them,
\* one matching the type selector only
NodeKinds(parent) ==
    {Node(Foo, Btn, {ClsA}, HasTitle, parent),
     Node(Undefined, Lbl, {}, NoAttrs, parent),
     Node(Undefined, Btn, {}, NoAttrs, parent)}

RECURSIVE Chains(_)
\* the trees that are one branch of n nodes: node 1 is the root, node k + 1
\* the child of node k
Chains(n) ==
    IF n = 1 THEN {<<k>> : k \in NodeKinds(NoParent)}
    ELSE {Append(t, k) : t \in Chains(n - 1), k \in NodeKinds(n - 1)}

InitMatch ==
    /\ \E text \in ChainTexts :
          astRules = <<RuleNode(<<text>>, << >>)>>
    /\ tree \in Chains(MaxDepth)
    /\ rulesets = << >>
    /\ selectorsMap = EmptySelectorsMap
    /\ result = NoResult
    /\ view = NoView
    /\ plays = NoPlays
    /\ cssSelector = NoCssSelector
    /\ file = NoFile
    /\ accessors = NoAccessors
    /\ fileAccess = NoFileAccess
    /\ pc = "css"

SpecMatch == InitMatch /\ [][NextMatch]_vars

-----------------------------------------------------------------------------
(* Type selectors over type names in every spelling *)

\* the longest generated type name
MaxNameLen == 5

ListViewTag == <<"l","i","s","t","v","i","e","w">>
ListViewSpellings ==
    {<<"L","i","s","t","V","i","e","w">>,
     <<"l","i","s","t","v","i","e","w">>,
     <<"L","i","s","t","-","V","i","e","w">>,
     <<"l","i","s","t","-","v","i","e","w">>}

\* names of letters and single dashes between letters (PascalCase,
\* lowercase, kebab-case)
TypeNames ==
    {name \in SeqsUpTo({"V", "v", "-"}, MaxNameLen) :
        /\ name # << >>
        /\ name[1] # "-" /\ name[Len(name)] # "-"
        /\ \A i \in 1..(Len(name) - 1) : ~(name[i] = "-" /\ name[i + 1] = "-")}
    \cup ListViewSpellings

\* the type tags of the nodes: lower-cased and dash-free
TypeTags ==
    {tag \in SeqsUpTo({"v"}, MaxNameLen) : tag # << >>} \cup {ListViewTag}

InitType ==
    /\ \E name \in TypeNames :
          astRules \in
              {<<RuleNode(<<Parsed(<<Tok("type", name, NoValue)>>)>>, << >>)>>,
               <<CommentNode,
                 RuleNode(<<Parsed(<<Tok("type", name, NoValue)>>)>>, << >>)>>}
    /\ \E tag \in TypeTags : tree = <<Node(Undefined, tag, {}, NoAttrs, NoParent)>>
    /\ rulesets = << >>
    /\ selectorsMap = EmptySelectorsMap
    /\ result = NoResult
    /\ view = NoView
    /\ plays = NoPlays
    /\ cssSelector = NoCssSelector
    /\ file = NoFile
    /\ accessors = NoAccessors
    /\ fileAccess = NoFileAccess
    /\ pc = "css"

SpecType == InitType /\ [][NextMatch]_vars

-----------------------------------------------------------------------------
(* Terms the properties are stated in *)

\* the selector objects the rule sets hold, by reference
IsRef(ref) == ref \in Refs(rulesets)

\* document order: rule sets in the order given, then the order in the group
DocBefore(a, b) == a[1] < b[1] \/ (a[1] = b[1] /\ a[2] < b[2])

\* the entries of a keyed map and of the whole index
DocsOfMap(map) == UNION {{map[k][i] : i \in DOMAIN map[k]} : k \in DOMAIN map}
AllDocs(sm) ==
    {sm.universal[i] : i \in DOMAIN sm.universal}
        \cup DocsOfMap(sm.id) \cup DocsOfMap(sm.class) \cup DocsOfMap(sm.type)

\* where the index holds an entry for ref: the bucket and, for a keyed map,
\* the key
FiledAt(sm, ref) ==
    {[bucket |-> "universal", key |-> Undefined] :
        i \in {j \in DOMAIN sm.universal : sm.universal[j].sel = ref}}
    \cup {[bucket |-> "id", key |-> k] :
        k \in {h \in DOMAIN sm.id : \E i \in DOMAIN sm.id[h] : sm.id[h][i].sel = ref}}
    \cup {[bucket |-> "class", key |-> k] :
        k \in {h \in DOMAIN sm.class : \E i \in DOMAIN sm.class[h] : sm.class[h][i].sel = ref}}
    \cup {[bucket |-> "type", key |-> k] :
        k \in {h \in DOMAIN sm.type : \E i \in DOMAIN sm.type[h] : sm.type[h][i].sel = ref}}

\* a query has returned a list
QueryReturned == result.op = "query" /\ ~result.ret.threw
Returns == result.ret.value

\* how often ref occurs in a list of references
Occurrences(list, ref) == Cardinality({i \in DOMAIN list : list[i] = ref})

\* the selector behind ref fully matches node n
Matches(ref, n) == match(Deref(rulesets, ref), tree, n) = Returned(TRUE)

-----------------------------------------------------------------------------
\* C1: every selector that SelectorsMap.query(node) returns fully matches the
\* node (its whole chain, combinators and attribute tests included).
C1_QueryReturnsOnlyMatching ==
    QueryReturned =>
        \A i \in DOMAIN Returns :
            IsRef(Returns[i]) => Matches(Returns[i], result.node)

\* C2: query returns its selectors in ascending specificity and, at equal
\* specificity, in document order, whatever bucket each was filed in; the
\* positions recorded at filing increase strictly in document order.
C2_QueryOrder ==
    /\ pc = "ready" =>
          \A a, b \in AllDocs(selectorsMap) :
              /\ DocBefore(a.sel, b.sel) => a.pos < b.pos
              /\ a.sel = b.sel => a = b
    /\ QueryReturned =>
          \A i, j \in DOMAIN Returns :
              (i < j /\ IsRef(Returns[i]) /\ IsRef(Returns[j])) =>
                  LET a == Deref(rulesets, Returns[i])
                      b == Deref(rulesets, Returns[j])
                  IN  \/ a.specificity < b.specificity
                      \/ /\ a.specificity = b.specificity
                         /\ DocBefore(Returns[i], Returns[j])

\* C2's case: a query returned two selectors of equal specificity that were
\* filed in different buckets
C2_Witness ==
    /\ QueryReturned
    /\ \E i, j \in DOMAIN Returns :
          /\ i < j /\ IsRef(Returns[i]) /\ IsRef(Returns[j])
          /\ Deref(rulesets, Returns[i]).specificity
                = Deref(rulesets, Returns[j]).specificity
          /\ lookupSort(Deref(rulesets, Returns[i])).bucket
                # lookupSort(Deref(rulesets, Returns[j])).bucket

\* C3: every valid selector of the rule sets that matches the node appears
\* exactly once in query(node), and no selector appears twice.
C3_QueryExactlyTheMatching ==
    result.op = "query" =>
        /\ \A ref \in Refs(rulesets) :
              Matches(ref, result.node) =>
                  (~result.ret.threw /\ Occurrences(Returns, ref) = 1)
        /\ ~result.ret.threw =>
              \A ref \in Refs(rulesets) : Occurrences(Returns, ref) <= 1

\* The same where no key names a member of Object.prototype: neither the
\* queried node's id, type or classes nor the key a selector is filed under.
OwnKeysOnly ==
    /\ \A ref \in Refs(rulesets) :
          asString(lookupSort(Deref(rulesets, ref)).key) \notin ObjectPrototypeKeys
    /\ result.op = "query" =>
          LET node == tree[result.node]
          IN  ({asString(node.id), node.cssType} \cup node.cssClasses)
                  \cap ObjectPrototypeKeys = {}

QueryExactlyTheMatchingOnOwnKeys ==
    (OwnKeysOnly /\ pc # "css") =>
        /\ pc # "failed"
        /\ C3_QueryExactlyTheMatching

-----------------------------------------------------------------------------
\* the part of a top-level selector that is tested on the queried node
TargetPart(sel) == IF sel.kind = "selector" THEN sel.selectorsReversed[1] ELSE sel

\* the rank const enum Rarity gives each kind of simple selector
EnumRarity(sel) ==
    CASE sel.kind = "id"        -> RarityId
      [] sel.kind = "class"     -> RarityClass
      [] sel.kind = "type"      -> RarityType
      [] sel.kind = "attribute" -> RarityAttribute
      [] sel.kind = "pseudo"    -> RarityPseudoClass
      [] sel.kind = "universal" -> RarityUniversal

\* the bucket and key a simple selector of the given rank stands for
BucketOf(sel) ==
    CASE sel.kind = "id"    -> [bucket |-> "id", key |-> sel.id]
      [] sel.kind = "class" -> [bucket |-> "class", key |-> sel.cssClass]
      [] sel.kind = "type"  -> [bucket |-> "type", key |-> sel.cssType]
      [] OTHER              -> [bucket |-> "universal", key |-> Undefined]

\* C4: a simple-selector sequence is indexed under a member of highest
\* rarity, with Id=3 > Class=2 > Type=1 > Attribute=PseudoClass=Universal=0:
\* under an id member if it has one, else a class member, else a type
\* member, and in the universal bucket only when it has none of these.
C4_FiledUnderRarestMember ==
    pc = "ready" =>
        \A ref \in Refs(rulesets) :
            LET seq == TargetPart(Deref(rulesets, ref))
            IN  seq.kind = "sequence" =>
                    \E i \in DOMAIN seq.selectors :
                        /\ \A k \in DOMAIN seq.selectors :
                              EnumRarity(seq.selectors[k]) <= EnumRarity(seq.selectors[i])
                        /\ FiledAt(selectorsMap, ref) = {BucketOf(seq.selectors[i])}

\* the parsed selector texts of the rules, by reference
TextOf(ref) == SelectSeq(astRules, isRule)[ref[1]].selectors[ref[2]]
IsInvalidText(ref) == TextOf(ref).threw \/ Len(TextOf(ref).ast) = 0
HasInvalidText == \E ref \in Refs(rulesets) : IsInvalidText(ref)

\* C7: a selector text whose parse throws or yields no tokens becomes an
\* InvalidSelector (matches nothing, specificity 0); it is never filed nor
\* returned by query, and every other selector of the sheet is still indexed
\* and returned for the nodes it matches.
C7_InvalidSelectorIsolated ==
    (pc # "css" /\ HasInvalidText) =>
        /\ \A ref \in Refs(rulesets) :
              IsInvalidText(ref) =>
                  /\ Deref(rulesets, ref).kind = "invalid"
                  /\ Deref(rulesets, ref).specificity = 0
                  /\ \A n \in DOMAIN tree :
                        match(Deref(rulesets, ref), tree, n) = Returned(FALSE)
        /\ pc # "failed"
        /\ pc = "ready" =>
              \A ref \in Refs(rulesets) :
                  IF IsInvalidText(ref)
                  THEN FiledAt(selectorsMap, ref) = {}
                  ELSE Cardinality(FiledAt(selectorsMap, ref)) = 1
        /\ result.op = "query" =>
              \A ref \in Refs(rulesets) :
                  IF IsInvalidText(ref)
                  THEN result.ret.threw \/ Occurrences(Returns, ref) = 0
                  ELSE Matches(ref, result.node) =>
                          (~result.ret.threw /\ Occurrences(Returns, ref) = 1)

\* The same where no key names a member of Object.prototype.
InvalidSelectorIsolatedOnOwnKeys == OwnKeysOnly => C7_InvalidSelectorIsolated

-----------------------------------------------------------------------------
\* a match call has been made: the selector object and the node it was made on
Matched == result.op = "match"
MatchedSelector == Deref(rulesets, result.sel)

RECURSIVE Ancestors(_, _)
\* the proper ancestors of node n, up to the root
Ancestors(t, n) ==
    IF t[n].parent = NoParent THEN {}
    ELSE {t[n].parent} \cup Ancestors(t, t[n].parent)

\* the matched selector is the two-part chain A comb B; in written order A is
\* the last member of selectorsReversed and B, the target part, the first
IsPair(comb) ==
    /\ Matched
    /\ MatchedSelector.kind = "selector"
    /\ Len(MatchedSelector.selectorsReversed) = 2
    /\ MatchedSelector.selectorsReversed[1].combinator = NoValue
    /\ MatchedSelector.selectorsReversed[2].combinator = comb
PartA == MatchedSelector.selectorsReversed[2]
PartB == MatchedSelector.selectorsReversed[1]

\* C5: `A > B` matches node n exactly when n matches B, n has a parent and
\* that parent matches A (a grandparent matching A does not count).
C5_ChildCombinator ==
    IsPair(">") =>
        result.ret = Returned(
            /\ partMatch(PartB, tree[result.node])
            /\ tree[result.node].parent # NoParent
            /\ partMatch(PartA, tree[tree[result.node].parent]))

\* C5's case: n matches B, its parent does not match A, its grandparent
\* does, and the match returned false
C5_Witness ==
    /\ IsPair(">")
    /\ partMatch(PartB, tree[result.node])
    /\ tree[result.node].parent # NoParent
    /\ ~partMatch(PartA, tree[tree[result.node].parent])
    /\ \E g \in Ancestors(tree, result.node) : partMatch(PartA, tree[g])
    /\ result.ret = Returned(FALSE)

\* C6: `A B` matches node n exactly when n matches B and some proper
\* ancestor of n, at any depth, matches A; the walk ends at the root with
\* false when none does (also when n has no parent).
C6_DescendantCombinator ==
    IsPair(" ") =>
        result.ret = Returned(
            /\ partMatch(PartB, tree[result.node])
            /\ \E a \in Ancestors(tree, result.node) : partMatch(PartA, tree[a]))

\* C6's case: n matches B, its parent does not match A, a more distant
\* ancestor does, and the match returned true
C6_Witness ==
    /\ IsPair(" ")
    /\ partMatch(PartB, tree[result.node])
    /\ tree[result.node].parent # NoParent
    /\ ~partMatch(PartA, tree[tree[result.node].parent])
    /\ result.ret = Returned(TRUE)

\* the combinators Selector.match handles
Supported == {NoValue, ">", " "}

\* the matched selector has a part with another combinator; FirstUnsupported
\* is the first such part from the target
HasUnsupported ==
    /\ Matched
    /\ MatchedSelector.kind = "selector"
    /\ \E i \in DOMAIN MatchedSelector.selectorsReversed :
          MatchedSelector.selectorsReversed[i].combinator \notin Supported
FirstUnsupported ==
    CHOOSE i \in DOMAIN MatchedSelector.selectorsReversed :
        /\ MatchedSelector.selectorsReversed[i].combinator \notin Supported
        /\ \A j \in 1..(i - 1) :
              MatchedSelector.selectorsReversed[j].combinator \in Supported

\* C8 as claimed: match on a selector with an unsupported combinator raises
\* for every node it is evaluated on.
C8_AlwaysRaises == HasUnsupported => result.ret.threw

\* What the code does: it raises exactly for the nodes on which the parts
\* nearer the target than the first unsupported part match as a selector of
\* their own; for every other node it returns false; it never returns true.
UnsupportedRaisesWhenReached ==
    HasUnsupported =>
        LET nearer == SubSeq(MatchedSelector.selectorsReversed, 1, FirstUnsupported - 1)
        IN  IF match(Selector(reverse(nearer)), tree, result.node) = Returned(TRUE)
            THEN result.ret.threw
            ELSE result.ret = Returned(FALSE)

\* both cases: the error was raised; false was returned without an error
UnsupportedRaised == HasUnsupported /\ result.ret.threw
UnsupportedReturned == HasUnsupported /\ result.ret = Returned(FALSE)

-----------------------------------------------------------------------------
\* the type selector compiled from the sheet's only selector text, and the
\* name it was written with
TypeText == SelectSeq(astRules, isRule)[1].selectors[1].ast[1]
CompiledType == rulesets[1].selectors[1]
IsTypeSheet ==
    /\ pc = "rulesets"
    /\ Len(rulesets) = 1 /\ Len(rulesets[1].selectors) = 1
    /\ CompiledType.kind = "type"

RECURSIVE stripDashes(_)
\* a name without any of its dashes
stripDashes(name) ==
    IF name = << >> THEN << >>
    ELSE IF Head(name) = "-" THEN stripDashes(Tail(name))
    ELSE <<Head(name)>> \o stripDashes(Tail(name))

\* C9: type-name normalization is idempotent and yields a dash-free tag, for
\* names with several dashes too; the stored cssType is the lower-cased,
\* dash-free name, which is the tag of the nodes named the same up to case
\* and dashes.
C9_NormalizationIdempotent ==
    IsTypeSheet =>
        /\ \A i \in DOMAIN CompiledType.cssType : CompiledType.cssType[i] # "-"
        /\ toLowerCase(replaceDash(CompiledType.cssType)) = CompiledType.cssType
        /\ CompiledType.cssType = toLowerCase(stripDashes(TypeText.ident))

\* The same for the names with at most one dash.
NormalizationIdempotentUpToOneDash ==
    (IsTypeSheet /\ Cardinality({i \in DOMAIN TypeText.ident : TypeText.ident[i] = "-"}) <= 1)
        => C9_NormalizationIdempotent

\* C10: ListView, listview, List-View and list-view all compile to the type
\* tag listview and match exactly the nodes whose cssType is listview.
C10_ListViewSpellings ==
    (IsTypeSheet /\ TypeText.ident \in ListViewSpellings) =>
        /\ CompiledType.cssType = ListViewTag
        /\ Matched =>
              result.ret = Returned(tree[result.node].cssType = ListViewTag)

\* C10's case: the selector written List-View matched a listview node
C10_Witness ==
    /\ IsTypeSheet
    /\ TypeText.ident = <<"L","i","s","t","-","V","i","e","w">>
    /\ Matched
    /\ tree[result.node].cssType = ListViewTag
    /\ result.ret = Returned(TRUE)

-----------------------------------------------------------------------------
\* the weight the specification gives a simple selector of each kind
WeightOf(tok) ==
    CASE tok.kind = "id" -> 65536
      [] tok.kind \in {"class", "attribute", "pseudo"} -> 256
      [] tok.kind = "type" -> 1
      [] OTHER -> 0

RECURSIVE WeightSum(_)
\* the sum of the weights of the simple selectors written in a selector text
WeightSum(ast) ==
    IF ast = << >> THEN 0 ELSE WeightOf(Head(ast)) + WeightSum(Tail(ast))

\* the rule sets have been compiled
Compiled == pc # "css"

\* C11: the specificity of a sequence is the sum of its members' weights and
\* that of a selector the sum over all its parts (Id 0x10000, Class, Attribute
\* and PseudoClass 0x100, Type 1, Universal 0); it is set at construction and
\* indexing and query leave it as it is.
C11_SpecificityIsSumOfWeights ==
    Compiled =>
        \A ref \in Refs(rulesets) :
            Deref(rulesets, ref).specificity =
                (IF IsInvalidText(ref) THEN 0 ELSE WeightSum(TextOf(ref).ast))

\* C11's case: after indexing and a query, a selector of two parts weighs
\* 257 and a sequence of an id and an attribute test 65792
C11_Witness ==
    /\ pc = "ready" /\ result.op = "query"
    /\ \E ref \in Refs(rulesets) :
          /\ Deref(rulesets, ref).kind = "selector"
          /\ Deref(rulesets, ref).specificity = 257
    /\ \E ref \in Refs(rulesets) :
          /\ Deref(rulesets, ref).kind = "sequence"
          /\ Deref(rulesets, ref).specificity = 65792

\* The same while selectors are matched.
SpecificityIsSumOfWeightsWhileMatching == C11_SpecificityIsSumOfWeights /\ (Matched => Compiled)

-----------------------------------------------------------------------------
(* Selectors with many simple selectors, up to the documented limit *)

\* "Please don't use CSS selectors with more than 255 type or class selectors"
MaxCount == 255

\* the counts tried for each rank: none, one, the limit
Counts == {0, 1, MaxCount}

\* The text with ids id selectors, classes class selectors and types type
\* selectors: btn btn ... btn#foo#foo.a.a, the types but one as ancestors
ManyText(ids, classes, types) ==
    LET ancestors == IF types > 1 THEN types - 1 ELSE 0
        own == IF types > 0 THEN 1 ELSE 0
        n == ancestors + own + ids + classes
    IN  Parsed([k \in 1..n |->
            IF k <= ancestors THEN Tok("type", Btn, " ")
            ELSE IF k <= ancestors + own THEN Tok("type", Btn, NoValue)
            ELSE IF k <= ancestors + own + ids THEN Tok("id", Foo, NoValue)
            ELSE Tok("class", ClsA, NoValue)])

\* the texts within the limit, and the two that pass it by one
ManyTexts ==
    {ManyText(i, c, t) : i \in Counts, c \in Counts, t \in Counts} \ {Parsed(<< >>)}
OverTexts == {ManyText(0, 0, MaxCount + 1), ManyText(0, MaxCount + 1, 0)}

\* the texts the others are compared with
FewTexts ==
    {ManyText(1, 0, 0), ManyText(0, 1, 0), ManyText(0, 0, 1), ManyText(1, 1, 1),
     ManyText(0, MaxCount, MaxCount), ManyText(1, 0, MaxCount)}

\* a rule with two such selectors, and a node that every one of them is
\* filed for
InitWeigh ==
    /\ \E a \in ManyTexts \cup OverTexts, b \in FewTexts :
          astRules = <<RuleNode(<<a, b>>, << >>)>>
    /\ tree = <<Node(Foo, Btn, {ClsA}, NoAttrs, NoParent)>>
    /\ rulesets = << >>
    /\ selectorsMap = EmptySelectorsMap
    /\ result = NoResult
    /\ view = NoView
    /\ plays = NoPlays
    /\ cssSelector = NoCssSelector
    /\ file = NoFile
    /\ accessors = NoAccessors
    /\ fileAccess = NoFileAccess
    /\ pc = "css"

SpecWeigh == InitWeigh /\ [][Next]_vars

\* how many simple selectors of the given kinds a selector text holds
CountOf(ast, kinds) == Cardinality({i \in DOMAIN ast : ast[i].kind \in kinds})

\* (id count, class-like count, type count) of the selector text behind ref
Triple(ref) ==
    LET ast == TextOf(ref).ast
    IN  <<CountOf(ast, {"id"}), CountOf(ast, {"class", "attribute", "pseudo"}),
          CountOf(ast, {"type"})>>
WithinLimit(t) == t[1] <= MaxCount /\ t[2] <= MaxCount /\ t[3] <= MaxCount

\* lexicographic order of the triples
LexBefore(s, t) ==
    \/ s[1] < t[1]
    \/ s[1] = t[1] /\ s[2] < t[2]
    \/ s[1] = t[1] /\ s[2] = t[2] /\ s[3] < t[3]

\* ref comes before other in the list the query returned
ReturnedBefore(a, b) ==
    \E i, j \in DOMAIN Returns : i < j /\ Returns[i] = a /\ Returns[j] = b

\* C12: for selectors with at most 255 simple selectors of each rank, the
\* order by summed specificity is the lexicographic order of (id count,
\* class-like count, type count); the order breaks once a count reaches 256:
\* 256 selectors of one rank weigh what one selector of the next rank does.
C12_SpecificityOrderIsLexicographic ==
    Compiled =>
        \A a, b \in Refs(rulesets) :
            LET s == Triple(a)
                t == Triple(b)
                sa == Deref(rulesets, a).specificity
                sb == Deref(rulesets, b).specificity
            IN  /\ (WithinLimit(s) /\ WithinLimit(t)) =>
                      /\ LexBefore(s, t) <=> sa < sb
                      /\ (QueryReturned /\ LexBefore(s, t)) => ReturnedBefore(a, b)
                /\ (s = <<0, 0, MaxCount + 1>> /\ t = <<0, 1, 0>>) => sa = sb
                /\ (s = <<0, MaxCount + 1, 0>> /\ t = <<1, 0, 0>>) => sa = sb

\* C12's case: 255 classes and 255 types come before a single id in the
\* list a query returned
C12_Witness ==
    /\ QueryReturned
    /\ \E a, b \in Refs(rulesets) :
          /\ Triple(a) = <<0, MaxCount, MaxCount>>
          /\ Triple(b) = <<1, 0, 0>>
          /\ ReturnedBefore(a, b)

\* the limit is sharp: one selector past it and a lower rank ties the next
OverLimitTies ==
    /\ QueryReturned
    /\ \E a, b \in Refs(rulesets) :
          /\ Triple(a) = <<0, 0, MaxCount + 1>> /\ Triple(b) = <<0, 1, 0>>
          /\ Deref(rulesets, a).specificity = Deref(rulesets, b).specificity

-----------------------------------------------------------------------------
(* Queries repeated while the node changes *)

\* the node's id or class list is set by its owner between queries; query
\* reads node.id, node.cssType and node.cssClasses anew at each call
ChangeNode ==
    /\ pc = "ready"
    /\ \E n \in DOMAIN tree, id \in {Undefined, Foo, Constructor},
          c \in {{}, {ClsA}, {ClsA, ClsB}} :
          /\ tree' = [tree EXCEPT ![n].id = id, ![n].cssClasses = c]
          /\ tree' # tree
    /\ UNCHANGED <<astRules, rulesets, selectorsMap, result, pc, view, plays, cssSelector, fsVars>>

NextRequery == FromAstNodes \/ NewSelectorsMap \/ Query \/ ChangeNode

\* a node that starts without id and classes
InitRequery ==
    /\ astRules \in Sheets(SheetTexts, MaxSelectors)
    /\ tree \in {<<Node(Undefined, Btn, {}, a, NoParent)>> : a \in {NoAttrs, HasTitle}}
    /\ rulesets = << >>
    /\ selectorsMap = EmptySelectorsMap
    /\ result = NoResult
    /\ view = NoView
    /\ plays = NoPlays
    /\ cssSelector = NoCssSelector
    /\ file = NoFile
    /\ accessors = NoAccessors
    /\ fileAccess = NoFileAccess
    /\ pc = "css"

SpecRequery == InitRequery /\ [][NextRequery]_vars

-----------------------------------------------------------------------------
-----------------------------------------------------------------------------
(* CssSelector: a rule's declarations applied to a view *)

ColorName == <<"c","o","l","o","r">>
TextName == <<"t","e","x","t">>
ClassName == <<"c","l","a","s","s">>
AnimationName == <<"a","n","i","m","a","t","i","o","n","-","n","a","m","e">>

\* a value every setter rejects with an error
Bad == <<"b","a","d">>
setterThrows(value) == value = Bad

\* what withStyleProperty hands the callback for a declaration's name: the
\* resolved StyleProperty ("style") or, unresolved, the name itself ("name")
withStyleProperty(name) == IF name = ColorName THEN "style" ELSE "name"

\* getSpecialPropertySetter(propertyName) finds a setter
getSpecialPropertySetter(name) == name = ClassName

\* propertyName in view
inView(name) == name = TextName

\* utils.convertString(value): the value the plain property is given
convertString(value) == [converted |-> value]

\* what a view property holds after a set: the value, through which setter
\* it came and, for a style property, under which value source
Held(value, through, source) ==
    [value |-> value, through |-> through, source |-> source]

\* values with name set to held
setValue(values, name, held) ==
    IF name \in DOMAIN values THEN [values EXCEPT ![name] = held]
    ELSE values @@ (name :> held)

\* what a setter callback did: threw, and the view's values after it
Set(values) == [threw |-> FALSE, values |-> values]
SetThrew(values) == [threw |-> TRUE, values |-> values]

\* The callback CssSelector.apply hands eachSetter.  A name goes to its
\* special setter or, when the view has the property, to view[propertyName];
\* neither is inside a try.  A StyleProperty goes to view.style._setValue
\* inside try/catch, where an error is traced and dropped.
applySetter(values, declaration, modifier) ==
    LET name == declaration.property
        value == declaration.value
    IN  IF withStyleProperty(name) = "name"
        THEN IF getSpecialPropertySetter(name)
             THEN IF setterThrows(value) THEN SetThrew(values)
                  ELSE Set(setValue(values, name, Held(value, "special", NoValue)))
             ELSE IF inView(name)
             THEN IF setterThrows(value) THEN SetThrew(values)
                  ELSE Set(setValue(values, name,
                               Held(convertString(value), "plain", NoValue)))
             ELSE Set(values)
        ELSE IF setterThrows(value) THEN Set(values)
             ELSE Set(setValue(values, name, Held(value, "style", modifier)))

\* The callback InlineStyleSelector.apply hands eachSetter: every property
\* goes to view.style._setValue as a StyleProperty, outside any try.  What
\* _setValue does with a name that was not resolved is not this code's to
\* say: nameThrows tells whether it throws or leaves the view alone.
inlineSetter(values, declaration, modifier, nameThrows) ==
    LET name == declaration.property
        value == declaration.value
    IN  IF withStyleProperty(name) = "name"
        THEN IF nameThrows THEN SetThrew(values) ELSE Set(values)
        ELSE IF setterThrows(value) THEN SetThrew(values)
             ELSE Set(setValue(values, name, Held(value, "style", modifier)))

\* the setters run so far: the view's values, the indices of the declarations
\* whose callback was called, and whether the last one threw out of the loop
Setting(values, called, threw) ==
    [values |-> values, called |-> called, threw |-> threw]

RECURSIVE eachSetter(_, _, _, _, _)
\* eachSetter(callback) from declaration i on: for (let i = 0; ...) with the
\* callback of apply (how = "apply") or of the inline apply
eachSetter(declarations, i, so, modifier, how) ==
    IF i > Len(declarations) THEN so
    ELSE LET did == IF how = "apply"
                    THEN applySetter(so.values, declarations[i], modifier)
                    ELSE inlineSetter(so.values, declarations[i], modifier,
                                      how = "inlineNameThrows")
         IN  IF did.threw
             THEN Setting(did.values, Append(so.called, i), TRUE)
             ELSE eachSetter(declarations, i + 1,
                             Setting(did.values, Append(so.called, i), FALSE),
                             modifier, how)

\* cssAnimationParser.keyframeAnimationsFromCSSDeclarations(declarations):
\* one KeyframeAnimationInfo for each animation-name declaration
keyframeAnimationsFromCSSDeclarations(declarations) ==
    LET named(d) == d.property = AnimationName
        found == SelectSeq(declarations, named)
    IN  [k \in DOMAIN found |-> [name |-> found[k].value]]

\* s.indexOf(c) and s.lastIndexOf(c), characters counted from 1: 0 where
\* the program gets -1
indexOf(s, c) ==
    IF \E i \in DOMAIN s : s[i] = c
    THEN CHOOSE i \in DOMAIN s : s[i] = c /\ \A j \in 1..(i - 1) : s[j] # c
    ELSE 0
lastIndexOf(s, c) ==
    IF \E i \in DOMAIN s : s[i] = c
    THEN CHOOSE i \in DOMAIN s : s[i] = c /\ \A j \in (i + 1)..Len(s) : s[j] # c
    ELSE 0

\* s.trim()
trim(s) ==
    IF \A i \in DOMAIN s : IsSpace(s[i]) THEN << >>
    ELSE LET first == CHOOSE i \in DOMAIN s :
                          ~IsSpace(s[i]) /\ \A j \in 1..(i - 1) : IsSpace(s[j])
             last == CHOOSE i \in DOMAIN s :
                         ~IsSpace(s[i]) /\ \A j \in (i + 1)..Len(s) : IsSpace(s[j])
         IN  SubSeq(s, first, last)

\* /\[\s*(.*)\s*\]/.exec(expression)[1].trim(): what stands between the first
\* "[" and the last "]" after it, Undefined when the expression has no such
\* pair
attrParams(expression) ==
    LET open == indexOf(expression, "[")
        close == lastIndexOf(expression, "]")
    IN  IF open > 0 /\ close > open
        THEN trim(SubSeq(expression, open + 1, close - 1))
        ELSE Undefined

\* new CssSelector(expression, declarations)
CssSelector(expression, declarations) ==
    LET open == IF expression = Undefined THEN 0 ELSE indexOf(expression, "[")
    IN  [expression |-> IF open > 0 THEN SubSeq(expression, 1, open - 1)
                        ELSE IF expression = << >> THEN Undefined ELSE expression,
         attrExpression |-> IF open > 0 THEN attrParams(expression) ELSE Undefined,
         declarations |-> declarations,
         animations |-> keyframeAnimationsFromCSSDeclarations(declarations)]

\* view._registerAnimation, view._unregisterAnimation and
\* view._unregisterAllAnimations on the view's registered animations
registerAnimation(registered, animation) == registered \cup {animation}
unregisterAnimation(registered, animation) == registered \ {animation}
unregisterAllAnimations(registered) == {}

\* a play() promise: pending, fulfilled or rejected, and whether the
\* handlers chained on it have run
Play(state, handled) == [state |-> state, handled |-> handled]

\* the chain with the catch handler missing
settledThenOnly(registered, animation, state) ==
    IF state = "fulfilled" THEN unregisterAnimation(registered, animation)
    ELSE registered

\* animation.play(view).then(() => { view._unregisterAnimation(animation); })
\*     .catch((e) => { view._unregisterAnimation(animation); }):
\* the registered animations after the handlers ran for a promise that
\* settled as state says (the then handler and the catch handler do the same)
settled(registered, animation, state) ==
    unregisterAnimation(registered, animation)

\* most play() promises a run makes
MaxPlays == 3

\* the selector object for the declarations of the first rule set
NewCssSelector ==
    /\ pc = "rulesets"
    /\ Len(rulesets) >= 1
    /\ cssSelector' = CssSelector(<<"*">>, rulesets[1].declarations)
    /\ pc' = "styled"
    /\ UNCHANGED <<astRules, rulesets, selectorsMap, tree, result, view, plays, fsVars>>

\* cssSelector.apply(view, valueSourceModifier).  made are the animations
\* for which keyframeAnimationFromInfo returns an animation; animation k of
\* this call is play Len(plays) + k.
Apply ==
    /\ pc = "styled"
    /\ Len(plays) + Len(cssSelector.animations) <= MaxPlays
    /\ \E given \in {NoValue, "VisualState"},
          made \in SUBSET DOMAIN cssSelector.animations :
          LET modifier == IF given = NoValue THEN "Css" ELSE given
              so == eachSetter(cssSelector.declarations, 1,
                               Setting(view.values, << >>, FALSE), modifier, "apply")
              starts == ~so.threw /\ view.isLoaded /\ view.hasNativeView
              started == IF starts THEN {Len(plays) + k : k \in made} ELSE {}
              count == Len(cssSelector.animations)
          IN  /\ view' = [view EXCEPT
                    !.values = so.values,
                    !.registered = unregisterAllAnimations(@) \cup started]
              /\ plays' = IF starts
                          THEN plays \o [k \in 1..count |->
                                   Play(IF k \in made THEN "pending" ELSE "none", FALSE)]
                          ELSE plays
              /\ result' = [op |-> "apply", node |-> 0, sel |-> NoRef,
                            ret |-> [threw |-> so.threw, value |-> so.called]]
    /\ UNCHANGED <<astRules, rulesets, selectorsMap, tree, pc, cssSelector, fsVars>>

\* applyInlineSyle(view, declarations): a new InlineStyleSelector over the
\* declarations, applied with ValueSource.Local
ApplyInline ==
    /\ pc = "styled"
    /\ \E how \in {"inlineNameThrows", "inlineNameIgnored"} :
          LET so == eachSetter(cssSelector.declarations, 1,
                               Setting(view.values, << >>, FALSE), "Local", how)
          IN  /\ view' = [view EXCEPT !.values = so.values]
              /\ result' = [op |-> "inline", node |-> 0, sel |-> NoRef,
                            ret |-> [threw |-> so.threw, value |-> so.called]]
    /\ UNCHANGED <<astRules, rulesets, selectorsMap, tree, pc, plays, cssSelector, fsVars>>

\* the play() promise of an animation settles
Settle ==
    /\ \E a \in DOMAIN plays, state \in {"fulfilled", "rejected"} :
          /\ plays[a].state = "pending"
          /\ plays' = [plays EXCEPT ![a].state = state]
    /\ UNCHANGED <<astRules, rulesets, selectorsMap, tree, result, pc, view, cssSelector, fsVars>>

\* the handlers chained on a settled promise run
Handlers(a) ==
    /\ a \in DOMAIN plays
    /\ plays[a].state \in {"fulfilled", "rejected"}
    /\ ~plays[a].handled
    /\ view' = [view EXCEPT !.registered = settled(@, a, plays[a].state)]
    /\ plays' = [plays EXCEPT ![a].handled = TRUE]
    /\ UNCHANGED <<astRules, rulesets, selectorsMap, tree, result, pc, cssSelector, fsVars>>

RunHandlers == \E a \in 1..MaxPlays : Handlers(a)

-----------------------------------------------------------------------------
(* Rules with a body, applied *)

\* most declarations of a rule
MaxDecls == 3

V1 == <<"1">>
V2 == <<"2">>

\* the declarations a body is written with
BodyDeclarations ==
    {DeclarationNode(name, value) :
        name \in {ColorName, <<"C","o","l","o","r">>, TextName, ClassName},
        value \in {V1, V2, Bad}}

\* the bodies: up to MaxDecls declarations, with or without a comment first
Bodies(declarations, n) ==
    LET lists == SeqsUpTo(declarations, n) \ {<< >>}
    IN  lists \cup {<<CommentNode>> \o body : body \in lists}

\* a view that is loaded and has its native view
LoadedView == [NoView EXCEPT !.isLoaded = TRUE, !.hasNativeView = TRUE]

InitApply ==
    /\ \E body \in Bodies(BodyDeclarations, MaxDecls) :
          astRules = <<RuleNode(<<Parsed(<<Tok("universal", Undefined, NoValue)>>)>>, body)>>
    /\ tree = <<Node(Undefined, Btn, {}, NoAttrs, NoParent)>>
    /\ rulesets = << >>
    /\ selectorsMap = EmptySelectorsMap
    /\ result = NoResult
    /\ view = LoadedView
    /\ plays = NoPlays
    /\ cssSelector = NoCssSelector
    /\ file = NoFile
    /\ accessors = NoAccessors
    /\ fileAccess = NoFileAccess
    /\ pc = "css"

NextApply == FromAstNodes \/ NewCssSelector \/ Apply \/ ApplyInline

SpecApply == InitApply /\ [][NextApply]_vars

\* a rule was applied to the view, by apply or inline
Applied == result.op \in {"apply", "inline"}
Declarations == cssSelector.declarations

\* the declarations whose setter rejects the value
Throwing == {i \in DOMAIN Declarations : setterThrows(Declarations[i].value)}

\* C15: when applying one declaration's value throws, the error is caught
\* for that declaration alone and every remaining declaration of the rule is
\* still applied, for style properties, plain and special view properties,
\* and for inline styles.
C15_ErrorCaughtPerDeclaration ==
    Applied =>
        /\ ~result.ret.threw
        /\ result.ret.value = [i \in DOMAIN Declarations |-> i]

\* What the code does: apply catches the error of a style property only.
StyleErrorsCaught ==
    (result.op = "apply"
        /\ \A i \in Throwing : withStyleProperty(Declarations[i].property) = "style") =>
        /\ ~result.ret.threw
        /\ result.ret.value = [i \in DOMAIN Declarations |-> i]
StyleErrorCaught ==
    /\ result.op = "apply" /\ ~result.ret.threw
    /\ \E i \in Throwing : i < Len(Declarations)

\* the declared value the view's property name holds
HeldValue(name) ==
    IF view.values[name].through = "plain" THEN view.values[name].value.converted
    ELSE view.values[name].value

\* the last declaration that names the property of declaration i
LastFor(i) ==
    CHOOSE j \in DOMAIN Declarations :
        /\ Declarations[j].property = Declarations[i].property
        /\ \A k \in DOMAIN Declarations :
              Declarations[k].property = Declarations[i].property => k <= j

\* C16: declarations are kept and applied in source order, so when two
\* declarations of a rule name the same property (and their setters accept
\* both values) the view ends with the later declaration's value.
C16_LaterDeclarationWins ==
    result.op = "apply" =>
        \A i \in DOMAIN Declarations :
            (i < LastFor(i) /\ i \notin Throwing /\ LastFor(i) \notin Throwing) =>
                /\ Declarations[i].property \in DOMAIN view.values
                /\ HeldValue(Declarations[i].property) = Declarations[LastFor(i)].value

\* the declarations of the body, in the order written
Written == SelectSeq(astRules[1].declarations, isDeclaration)

\* What the code does: the declarations are kept in the order written, the
\* setters are called in that order up to the first error that is not
\* caught, and among the declarations applied the later one wins.
AppliedInSourceOrder ==
    /\ pc = "styled" =>
          /\ Len(Declarations) = Len(Written)
          /\ \A i \in DOMAIN Written :
                /\ Declarations[i].property = toLowerCase(Written[i].property)
                /\ Declarations[i].value = Written[i].value
    /\ Applied =>
          /\ \E k \in 0..Len(Declarations) : result.ret.value = [i \in 1..k |-> i]
          /\ (result.op = "apply" /\ ~result.ret.threw) => C16_LaterDeclarationWins
LaterDeclarationWon ==
    /\ result.op = "apply" /\ ~result.ret.threw
    /\ \E i \in DOMAIN Declarations :
          /\ i < LastFor(i) /\ i \notin Throwing /\ LastFor(i) \notin Throwing
          /\ Declarations[i].value # Declarations[LastFor(i)].value
          /\ HeldValue(Declarations[i].property) = Declarations[LastFor(i)].value

-----------------------------------------------------------------------------
(* Rules that name keyframe animations, applied while animations play *)

Fade == <<"f">>
Spin == <<"s">>

\* the declarations an animated body is written with
AnimatedDeclarations ==
    {DeclarationNode(AnimationName, Fade), DeclarationNode(AnimationName, Spin),
     DeclarationNode(TextName, Bad)}

InitAnimate ==
    /\ \E body \in SeqsUpTo(AnimatedDeclarations, MaxDecls) \ {<< >>} :
          astRules = <<RuleNode(<<Parsed(<<Tok("universal", Undefined, NoValue)>>)>>, body)>>
    /\ tree = <<Node(Undefined, Btn, {}, NoAttrs, NoParent)>>
    /\ rulesets = << >>
    /\ selectorsMap = EmptySelectorsMap
    /\ result = NoResult
    /\ \E isLoaded \in BOOLEAN, hasNativeView \in BOOLEAN :
          view = [NoView EXCEPT !.isLoaded = isLoaded, !.hasNativeView = hasNativeView]
    /\ plays = NoPlays
    /\ cssSelector = NoCssSelector
    /\ file = NoFile
    /\ accessors = NoAccessors
    /\ fileAccess = NoFileAccess
    /\ pc = "css"

NextAnimate == FromAstNodes \/ NewCssSelector \/ Apply \/ Settle \/ RunHandlers

\* The handlers chained on a promise are jobs of the event loop: once the
\* promise has settled they are run.  Nothing makes a promise settle or the
\* program call apply again.
SpecAnimate ==
    /\ InitAnimate
    /\ [][NextAnimate]_vars
    /\ \A a \in 1..MaxPlays : WF_vars(Handlers(a))

\* the play() promise of animation a has settled
HasSettled(a) == a \in DOMAIN plays /\ plays[a].state \in {"fulfilled", "rejected"}

\* C20: every keyframe animation apply registered on the view is eventually
\* unregistered once its play() promise has settled, fulfilled or rejected,
\* whatever further apply calls and settlements come in between; so once
\* every promise has settled no animation stays registered.
C20_SettledAnimationUnregistered ==
    /\ \A a \in 1..MaxPlays : HasSettled(a) ~> (a \notin view.registered)
    /\ (\A a \in DOMAIN plays : plays[a].state # "pending")
           ~> (view.registered = {} \/ \E a \in DOMAIN plays : plays[a].state = "pending")
C20_Witness ==
    /\ Len(plays) = Len(cssSelector.animations)
    /\ \E a \in DOMAIN plays, b \in DOMAIN plays :
          /\ plays[a].state = "rejected" /\ plays[a].handled
          /\ a \notin view.registered
          /\ plays[b].state = "pending" /\ b \in view.registered

\* A registered animation is one whose handlers have not run, and apply
\* starts animations only on a loaded view that has its native view.
RegisteredAwaitHandlers ==
    /\ \A a \in view.registered : a \in DOMAIN plays /\ ~plays[a].handled
    /\ (~view.isLoaded \/ ~view.hasNativeView) => plays = NoPlays

-----------------------------------------------------------------------------
(* matchesAttr: the attribute test of the CssSelector classes *)

Digits == <<"0","1","2","3","4","5","6","7","8","9">>
IsLetter(c) == \E i \in DOMAIN UpperCase : c = UpperCase[i] \/ c = LowerCase[i]

\* [a-zA-Z-]
IsLetterOrDash(c) == IsLetter(c) \/ c = "-"

\* \w
IsWordChar(c) == IsLetter(c) \/ c = "_" \/ \E i \in DOMAIN Digits : c = Digits[i]

\* \b after the first k characters of a
WordBoundary(a, k) ==
    (k >= 1 /\ k <= Len(a) /\ IsWordChar(a[k]))
        # (k + 1 <= Len(a) /\ IsWordChar(a[k + 1]))

IsSign(c) == c \in {"~", "|", "^", "$", "*"}
IsQuote(c) == c \in {"\"", "'"}

\* /(.*[^~|\^\$\*])[~|\^\$\*]?=(.*)/.exec(attrExpression): where the first
\* group ends, the longest that lets the rest match, and where the second
\* starts; 0 when the expression does not match
nameEnd(e) ==
    LET fits(p) == /\ ~IsSign(e[p])
                   /\ \/ (p + 1 <= Len(e) /\ e[p + 1] = "=")
                      \/ (p + 2 <= Len(e) /\ IsSign(e[p + 1]) /\ e[p + 2] = "=")
        ends == {p \in DOMAIN e : fits(p)}
    IN  IF ends = {} THEN 0 ELSE CHOOSE p \in ends : \A q \in ends : q <= p
valueStart(e) ==
    LET p == nameEnd(e)
    IN  IF e[p + 1] = "=" THEN p + 2 ELSE p + 3

\* s.replace(/^(["'])*(.*)\1$/, '$2'): the leading quotes go, as many as
\* leave the last of them closing the string, and that closing quote with
\* them
unquote(s) ==
    LET fits(k) == /\ \A i \in 1..k : IsQuote(s[i])
                   /\ k + 1 <= Len(s)
                   /\ s[Len(s)] = s[k]
        runs == {k \in 1..Len(s) : fits(k)}
    IN  IF runs = {} THEN s
        ELSE LET k == CHOOSE r \in runs : \A q \in runs : q <= r
             IN  SubSeq(s, k + 1, Len(s) - 1)

\* attrCheckRegex.test(a) for the regular expression of the sign before "="
attrCheck(sign, v, a) ==
    CASE sign = "~" -> \E i \in 1..(Len(a) + 1) :
                           /\ OccursAt(a, v, i)
                           /\ (i = 1 \/ ~IsLetterOrDash(a[i - 1]))
                           /\ (i + Len(v) = Len(a) + 1 \/ ~IsLetterOrDash(a[i + Len(v)]))
      [] sign = "|" -> OccursAt(a, v, 1) /\ WordBoundary(a, Len(v))
      [] sign = "^" -> OccursAt(a, v, 1)
      [] sign = "$" -> OccursAt(a, v, Len(a) - Len(v) + 1)
      [] sign = "*" -> \E i \in 1..(Len(a) + 1) : OccursAt(a, v, i)
      [] OTHER      -> a = v

\* matchesAttr(attrExpression, view).  An expression with "=" that the
\* name-value expression does not match leaves attrValue undefined, and
\* escaping it throws.
matchesAttr(attrExpression, node) ==
    LET equalSignIndex == indexOf(attrExpression, "=")
    IN  IF equalSignIndex > 1
        THEN IF nameEnd(attrExpression) = 0 THEN Thrown
             ELSE LET attrName == trim(SubSeq(attrExpression, 1, nameEnd(attrExpression)))
                      attrValue == unquote(trim(SubSeq(attrExpression,
                                       valueStart(attrExpression), Len(attrExpression))))
                  IN  Returned(/\ ~isNullOrUndefined(Prop(node, attrName))
                               /\ attrCheck(attrExpression[equalSignIndex - 1], attrValue,
                                            asString(Prop(node, attrName))))
        ELSE Returned(~isNullOrUndefined(Prop(node, attrExpression)))

\* CssSelector.matchTail(view)
matchTail(sel, node) ==
    IF sel.attrExpression = Undefined \/ sel.attrExpression = << >>
    THEN Returned(TRUE)
    ELSE matchesAttr(sel.attrExpression, node)

\* cssSelector.matchTail(view) for a node of the tree
MatchTail ==
    /\ cssSelector # NoCssSelector
    /\ \E n \in DOMAIN tree :
          result' = [op |-> "matchTail", node |-> n, sel |-> NoRef,
                     ret |-> matchTail(cssSelector, tree[n])]
    /\ UNCHANGED <<astRules, rulesets, selectorsMap, tree, pc, view, plays, cssSelector, fsVars>>

-----------------------------------------------------------------------------
(* Attribute selectors with an operator *)

Lang == <<"l","a","n","g">>
En == <<"e","n">>
TwoWords == <<"e"," ","n">>

AttributeTests == {"=", "^=", "$=", "*=", "|=", "~="}

\* the values a selector is written with, and the values a node holds
SelectorValues == {En, TwoWords}
NodeValues ==
    {En, TwoWords, <<"e","n","-","U","S">>, <<"e","n","g","l","i","s","h">>,
     <<"e","n"," ","U","S">>, <<"f","r"," ","e","n">>, <<"e","n",",","U","S">>,
     <<"m","e","n">>, <<"e","n","1">>, <<"U","S","-","e","n">>}

\* the characters of an attribute test
TestText(test) ==
    CASE test = "="  -> <<"=">>
      [] test = "^=" -> <<"^", "=">>
      [] test = "$=" -> <<"$", "=">>
      [] test = "*=" -> <<"*", "=">>
      [] test = "|=" -> <<"|", "=">>
      [] test = "~=" -> <<"~", "=">>

\* the text of the selector [attribute test value], the value quoted or not
AttributeText(attribute, test, value, quote) ==
    <<"[">> \o attribute \o TestText(test) \o quote \o value \o quote \o <<"]">>

\* One attribute selector, compiled by both implementations from the same
\* text.
InitAttr ==
    /\ \E test \in AttributeTests, value \in SelectorValues, a \in NodeValues,
          quote \in {<< >>, <<"\"">>, <<"'">>} :
          /\ astRules = <<RuleNode(<<Parsed(<<AttrTok(Lang, test, value, NoValue)>>)>>, << >>)>>
          /\ cssSelector = CssSelector(AttributeText(Lang, test, value, quote), << >>)
          /\ tree = <<Node(Undefined, Btn, {}, [k \in {Lang} |-> a], NoParent)>>
    /\ rulesets = << >>
    /\ selectorsMap = EmptySelectorsMap
    /\ result = NoResult
    /\ view = NoView
    /\ plays = NoPlays
    /\ file = NoFile
    /\ accessors = NoAccessors
    /\ fileAccess = NoFileAccess
    /\ pc = "css"

NextAttr == FromAstNodes \/ Match \/ MatchTail

SpecAttr == InitAttr /\ [][NextAttr]_vars

\* the attribute selector under test, and the node's value of its attribute
Written17 == astRules[1].selectors[1].ast[1]
Held17 == tree[1].attrs[Written17.prop]

RECURSIVE WordsFrom(_, _, _)
\* the whitespace-separated words of a from character i on, word being the
\* characters of the word that is open
WordsFrom(a, i, word) ==
    IF i > Len(a) THEN (IF word = << >> THEN {} ELSE {word})
    ELSE IF IsSpace(a[i])
         THEN (IF word = << >> THEN {} ELSE {word}) \cup WordsFrom(a, i + 1, << >>)
         ELSE WordsFrom(a, i + 1, Append(word, a[i]))

\* what each operator means
Means(test, v, a) ==
    CASE test = "="  -> a = v
      [] test = "^=" -> Len(v) <= Len(a) /\ SubSeq(a, 1, Len(v)) = v
      [] test = "$=" -> Len(v) <= Len(a) /\ SubSeq(a, Len(a) - Len(v) + 1, Len(a)) = v
      [] test = "*=" -> \E i \in 1..Len(a), j \in 1..Len(a) : SubSeq(a, i, j) = v
      [] test = "|=" -> a = v \/ (Len(v) + 1 <= Len(a) /\ SubSeq(a, 1, Len(v) + 1) = v \o <<"-">>)
      [] test = "~=" -> v \in WordsFrom(a, 1, << >>)

\* C17: with operator op and a non-empty value v, on a node whose attribute
\* holds the string a, the selector matches exactly when = a equals v, ^= a
\* starts with v, $= a ends with v, *= a contains v, |= a equals v or starts
\* with v and a dash, ~= v is one of the whitespace-separated words of a; for
\* the AttributeSelector matcher and for matchesAttr alike.
C17_AttributeOperators ==
    result.op \in {"match", "matchTail"} =>
        result.ret = Returned(Means(Written17.test, Written17.value, Held17))

\* What the code does: the AttributeSelector matcher follows the operators.
AttributeSelectorOperators ==
    result.op = "match" =>
        result.ret = Returned(Means(Written17.test, Written17.value, Held17))

\* What the code does: matchesAttr follows them for =, ^=, $= and *=; for |=
\* the value may be followed by any character that is not a letter, digit or
\* underscore, and for ~= the words are what stands between characters that
\* are neither letters nor dashes.
MatchesAttrOperators ==
    result.op = "matchTail" =>
        LET test == Written17.test
            v == Written17.value
            a == Held17
        IN  /\ ~result.ret.threw
            /\ test \in {"=", "^=", "$=", "*="} => result.ret.value = Means(test, v, a)
            /\ test \in {"|=", "~="} => (Means(test, v, a) => result.ret.value)
DashMatched ==
    /\ result.op = "match" /\ result.ret = Returned(TRUE)
    /\ Written17.test = "|=" /\ Held17 # Written17.value
DashMatchedAtSpace ==
    /\ result.op = "matchTail" /\ result.ret = Returned(TRUE)
    /\ Written17.test = "|=" /\ Held17 = <<"e","n"," ","U","S">>

-----------------------------------------------------------------------------
(* Rule sets behind the selectors of the index *)

\* the selectors the index holds, in all four buckets
Indexed ==
    LET lists == {selectorsMap.universal}
                     \cup {selectorsMap.id[k] : k \in DOMAIN selectorsMap.id}
                     \cup {selectorsMap.class[k] : k \in DOMAIN selectorsMap.class}
                     \cup {selectorsMap.type[k] : k \in DOMAIN selectorsMap.type}
    IN  UNION {{list[i].sel : i \in DOMAIN list} : list \in lists}

\* C18: every selector of a rule set's group back-references that rule set,
\* and every selector query returns is a top-level member of the group of a
\* rule set of the index, never a part of a compound selector, so that its
\* rule set and declarations can be retrieved.
C18_ReturnedSelectorsHaveRuleSet ==
    /\ \A ref \in Refs(rulesets) : Deref(rulesets, ref).ruleset = ref[1]
    /\ (result.op = "query" /\ ~result.ret.threw) =>
          \A i \in DOMAIN Returns :
              /\ Returns[i] \in Refs(rulesets)
              /\ Deref(rulesets, Returns[i]).ruleset \in DOMAIN rulesets

\* What the code does: every selector the index holds is a top-level member
\* of a rule set's group, and on keys that are no member names of
\* Object.prototype query returns such selectors only.
IndexedAreTopLevel ==
    /\ Indexed \subseteq Refs(rulesets)
    /\ (OwnKeysOnly /\ pc # "css") => C18_ReturnedSelectorsHaveRuleSet
CompoundReturned ==
    /\ result.op = "query" /\ ~result.ret.threw
    /\ OwnKeysOnly
    /\ \E i \in DOMAIN Returns :
          /\ Returns[i] \in Refs(rulesets)
          /\ Deref(rulesets, Returns[i]).kind \in {"selector", "sequence"}

-----------------------------------------------------------------------------
(* createSelector of the CssSelector classes, CssCompositeSelector *)

RECURSIVE spaced(_)
\* expression.replace(/>/g, " > ")
spaced(s) ==
    IF s = << >> THEN << >>
    ELSE (IF Head(s) = ">" THEN <<" ", ">", " ">> ELSE <<Head(s)>>) \o spaced(Tail(s))

RECURSIVE collapsed(_)
\* s.replace(/\s\s+/g, " ")
collapsed(s) ==
    IF s = << >> THEN << >>
    ELSE IF Len(s) >= 2 /\ IsSpace(s[1]) /\ IsSpace(s[2]) THEN collapsed(Tail(s))
    ELSE <<Head(s)>> \o collapsed(Tail(s))

\* what the loop of splitExpression holds: result, tempArr and validSpace
Splitting(pushed, tempArr, validSpace) ==
    [result |-> pushed, tempArr |-> tempArr, validSpace |-> validSpace]

RECURSIVE splitFrom(_, _, _)
\* the loop of splitExpression from character i on
splitFrom(expression, i, so) ==
    IF i > Len(expression)
    THEN IF so.tempArr # << >> THEN Append(so.result, so.tempArr) ELSE so.result
    ELSE LET c == expression[i]
             validSpace == IF c = "[" THEN FALSE ELSE IF c = "]" THEN TRUE
                           ELSE so.validSpace
             isDotOrHash == c \in {".", "#"}
             flushed == IF so.tempArr = << >> THEN so.result
                        ELSE IF isDotOrHash THEN so.result \o <<so.tempArr, << >> >>
                        ELSE Append(so.result, so.tempArr)
             tempArr == IF so.tempArr # << >> /\ ~isDotOrHash THEN << >>
                        ELSE IF so.tempArr # << >> THEN <<c>>
                        ELSE so.tempArr
         IN  IF (IsSpace(c) /\ validSpace) \/ c = ">" \/ (isDotOrHash /\ so.tempArr # << >>)
             THEN splitFrom(expression, i + 1,
                      Splitting(IF c = ">" THEN Append(flushed, <<">">>) ELSE flushed,
                                tempArr, validSpace))
             ELSE splitFrom(expression, i + 1,
                      Splitting(so.result, Append(so.tempArr, c), validSpace))

\* CssCompositeSelector.splitExpression(expression): the parts, ">" for a
\* child combinator and the empty string between two parts of one element
splitExpression(expression) ==
    splitFrom(expression, 1, Splitting(<< >>, << >>, TRUE))

\* the head loop of the constructor: the index of the first selector of
\* highest rarity among the leading selectors with ViewSearch.Element, 0
\* when there is none
headIndex(allSelectors) ==
    LET leading == {i \in DOMAIN allSelectors :
                       \A j \in 1..i : allSelectors[j].viewSearch = "Element"}
        rarest == {i \in leading :
                      \A j \in leading : allSelectors[j].rarity <= allSelectors[i].rarity}
    IN  IF leading = {} THEN 0 ELSE CHOOSE i \in rarest : \A j \in rarest : i <= j

\* allSelectors.splice(headIndex, 1) with the program's headIndex, one less
\* than at: -1 takes the last element
splice(allSelectors, at) ==
    LET gone == IF at = 0 THEN Len(allSelectors) ELSE at
    IN  SubSeq(allSelectors, 1, gone - 1) \o SubSeq(allSelectors, gone + 1, Len(allSelectors))

RECURSIVE createCssSelector(_, _)
RECURSIVE allSelectorsFrom(_, _, _, _)

\* the first loop of the CssCompositeSelector constructor, from expression i
\* down: for (let i = expressions.length - 1; i >= 0; i--)
allSelectorsFrom(expressions, i, viewSearch, allSelectors) ==
    IF i < 1 THEN allSelectors
    ELSE IF trim(expressions[i]) = <<">">>
         THEN allSelectorsFrom(expressions, i - 1, "Parent", allSelectors)
    ELSE IF expressions[i] = << >>
         THEN allSelectorsFrom(expressions, i - 1, "Element", allSelectors)
    ELSE LET selector == createCssSelector(trim(expressions[i]), << >>)
             search == IF allSelectors = << >> THEN "Element" ELSE viewSearch
         IN  allSelectorsFrom(expressions, i - 1, "Ancestor",
                 Append(allSelectors, [selector EXCEPT !.viewSearch = search]))

\* new CssCompositeSelector(expr, declarations)
CssCompositeSelector(expr, declarations) ==
    LET expressions == splitExpression(expr)
        allSelectors == allSelectorsFrom(expressions, Len(expressions), "Element", << >>)
        at == headIndex(allSelectors)
    IN  CssSelector(expr, declarations) @@
        [kind |-> "CssCompositeSelector", viewSearch |-> "Element",
         specificity |-> sumSpecificity(allSelectors),
         head |-> IF at = 0 THEN NoCssSelector ELSE allSelectors[at],
         rarity |-> IF at = 0 THEN RarityUniversal ELSE allSelectors[at].rarity,
         tailSelectors |-> splice(allSelectors, at)]

\* createSelector(expression, declarations) of the CssSelector classes.  An
\* expression with a colon outside a composite makes a
\* CssVisualStateSelector; the expressions compiled here have none.
createCssSelector(expression, declarations) ==
    LET goodExpr == collapsed(spaced(expression))
        hasNonFirstDotOrHash == \E i \in 2..Len(goodExpr) : goodExpr[i] \in {".", "#"}
        made == CssSelector(goodExpr, declarations)
    IN  IF indexOf(goodExpr, " ") > 0 THEN CssCompositeSelector(goodExpr, declarations)
        ELSE IF indexOf(goodExpr, "[") = 1
        THEN made @@ [kind |-> "CssAttrSelector", viewSearch |-> "Element",
                      specificity |-> SpecificityAttribute, rarity |-> RarityAttribute]
        ELSE IF hasNonFirstDotOrHash THEN CssCompositeSelector(goodExpr, declarations)
        ELSE IF goodExpr # << >> /\ goodExpr[1] = "#"
        THEN CssSelector(Tail(goodExpr), declarations) @@
                 [kind |-> "CssIdSelector", viewSearch |-> "Element",
                  specificity |-> SpecificityId, rarity |-> RarityId]
        ELSE IF goodExpr # << >> /\ goodExpr[1] = "."
        THEN CssSelector(Tail(goodExpr), declarations) @@
                 [kind |-> "CssClassSelector", viewSearch |-> "Element",
                  specificity |-> SpecificityClass, rarity |-> RarityClass]
        ELSE made @@ [kind |-> "CssTypeSelector", viewSearch |-> "Element",
                      specificity |-> SpecificityType, rarity |-> RarityType,
                      type |-> toLowerCase(replaceDash(made.expression))]

\* a && b where a and b are calls that return or throw
andAlso(a, b) == IF a.threw THEN Thrown ELSE IF ~a.value THEN Returned(FALSE) ELSE b

RECURSIVE matches(_, _, _)
RECURSIVE compositeMatchTail(_, _, _)
RECURSIVE everyTail(_, _, _, _)
RECURSIVE whileParent(_, _, _)

\* while (view = view.parent) { if (selector.matches(view)) return true; }
\* return false: the ancestor the loop returns at (Returned), NoParent when
\* it runs out of parents
whileParent(selector, t, n) ==
    LET p == t[n].parent
    IN  IF p = NoParent THEN Returned(NoParent)
        ELSE LET m == matches(selector, t, p)
             IN  IF m.threw THEN Thrown
                 ELSE IF m.value THEN Returned(p) ELSE whileParent(selector, t, p)

\* selectors.every(selector => switch (selector.viewSearch) ...) from
\* selector i on, view being node n: Element tests view, Parent and Ancestor
\* assign view before they test
everyTail(selectors, i, t, n) ==
    IF i > Len(selectors) THEN Returned(TRUE)
    ELSE LET selector == selectors[i]
             p == t[n].parent
             found == whileParent(selector, t, n)
         IN  CASE selector.viewSearch = "Element" ->
                      andAlso(matches(selector, t, n), everyTail(selectors, i + 1, t, n))
               [] selector.viewSearch = "Parent" ->
                      IF p = NoParent THEN Returned(FALSE)
                      ELSE andAlso(matches(selector, t, p), everyTail(selectors, i + 1, t, p))
               [] selector.viewSearch = "Ancestor" ->
                      IF found.threw THEN Thrown
                      ELSE IF found.value = NoParent THEN Returned(FALSE)
                      ELSE everyTail(selectors, i + 1, t, found.value)

\* CssCompositeSelector.matchTail(view): this.head.matchTail(view) &&
\* super.matchTail(view) && this.tailSelectors.every(...)
compositeMatchTail(sel, t, n) ==
    andAlso(matchTail(sel.head, t[n]),
            andAlso(matchTail(sel, t[n]), everyTail(sel.tailSelectors, 1, t, n)))

\* selector.matches(view) of each class; super.matches(view) is
\* this.matchTail(view)
matches(sel, t, n) ==
    CASE sel.kind = "CssTypeSelector" ->
             andAlso(Returned(sel.type = t[n].cssType), matchTail(sel, t[n]))
      [] sel.kind = "CssIdSelector" ->
             andAlso(Returned(sel.expression = t[n].id), matchTail(sel, t[n]))
      [] sel.kind = "CssClassSelector" ->
             andAlso(Returned(sel.expression \in t[n].cssClasses), matchTail(sel, t[n]))
      [] sel.kind = "CssAttrSelector" -> matchTail(sel, t[n])
      [] sel.kind = "CssCompositeSelector" ->
             andAlso(matches(sel.head, t, n), compositeMatchTail(sel, t, n))

\* the selector of the rule's text
CreateSelector ==
    /\ pc = "css"
    /\ cssSelector' = createCssSelector(astRules[1].selectors[1], astRules[1].declarations)
    /\ pc' = "styled"
    /\ UNCHANGED <<astRules, rulesets, selectorsMap, tree, result, view, plays, fsVars>>

\* cssSelector.matches(view) for a node of the tree
ViewMatches ==
    /\ cssSelector # NoCssSelector
    /\ \E n \in DOMAIN tree :
          result' = [op |-> "matches", node |-> n, sel |-> NoRef,
                     ret |-> matches(cssSelector, tree, n)]
    /\ UNCHANGED <<astRules, rulesets, selectorsMap, tree, pc, view, plays, cssSelector, fsVars>>

-----------------------------------------------------------------------------
(* Composite selectors on trees of views *)

Title == <<"t","i","t","l","e">>
Titled == [k \in {Title} |-> TitleX]
Untitled == [k \in {} |-> TitleX]

\* the selector texts: parts of one element, descendants and children, with
\* and without an attribute test
CompositeTexts ==
    {<<"b","t","n",".","a">>,
     <<"b","t","n","#","f","o","o",".","a">>,
     <<".","a","#","f","o","o">>,
     <<".","a",".","b">>,
     <<"l","b","l"," ","b","t","n">>,
     <<"l","b","l",">","b","t","n">>,
     <<"l","b","l"," ",">"," ","b","t","n",".","a">>,
     <<"l","b","l",".","a"," ","b","t","n">>,
     <<"l","b","l"," ","b","t","n","#","f","o","o">>,
     <<"l","b","l"," ","l","b","l"," ","b","t","n">>,
     <<"l","b","l"," ","#","f","o","o",".","a">>,
     <<"l","b","l","[","t","i","t","l","e","]"," ","b","t","n">>,
     <<"l","b","l"," ","b","t","n","[","t","i","t","l","e","]">>,
     <<"b","t","n",".","a","[","t","i","t","l","e","]">>}

ViewKinds(parent) ==
    {Node(Foo, Btn, {ClsA}, Titled, parent),
     Node(Undefined, Btn, {ClsA, ClsB}, Untitled, parent),
     Node(Undefined, Btn, {}, Untitled, parent),
     Node(Undefined, Lbl, {ClsA}, Untitled, parent),
     Node(Undefined, Lbl, {}, Titled, parent)}

RECURSIVE ViewChains(_)
\* the trees that are one branch of n views, view 1 the root
ViewChains(n) ==
    IF n = 1 THEN {<<k>> : k \in ViewKinds(NoParent)}
    ELSE {Append(t, k) : t \in ViewChains(n - 1), k \in ViewKinds(n - 1)}

InitComposite ==
    /\ \E text \in CompositeTexts : astRules = <<RuleNode(<<text>>, << >>)>>
    /\ tree \in ViewChains(MaxDepth)
    /\ rulesets = << >>
    /\ selectorsMap = EmptySelectorsMap
    /\ result = NoResult
    /\ view = NoView
    /\ plays = NoPlays
    /\ cssSelector = NoCssSelector
    /\ file = NoFile
    /\ accessors = NoAccessors
    /\ fileAccess = NoFileAccess
    /\ pc = "css"

NextComposite == CreateSelector \/ ViewMatches

SpecComposite == InitComposite /\ [][NextComposite]_vars

\* the parts of the rule's text, from the rightmost on, as the constructor
\* makes them
Parts ==
    LET expressions == splitExpression(collapsed(spaced(astRules[1].selectors[1])))
    IN  allSelectorsFrom(expressions, Len(expressions), "Element", << >>)

\* the parts that must match the tested view itself: the rightmost compound
OnTheView == {i \in DOMAIN Parts : \A j \in 1..i : Parts[j].viewSearch = "Element"}

\* C19: the head of a CssCompositeSelector is one of the parts that must
\* match the tested view itself and has the highest rarity among them; the
\* head is not in the tail list; so matches(view) tests every part of the
\* expression exactly once, the head and the parts of the same element on
\* the view, the others on its parent or ancestors.
C19_HeadAndEveryPartOnce ==
    (pc = "styled" /\ cssSelector.kind = "CssCompositeSelector") =>
        /\ \E h \in OnTheView :
              /\ cssSelector.head = Parts[h]
              /\ \A i \in OnTheView : Parts[i].rarity <= Parts[h].rarity
              /\ cssSelector.tailSelectors = splice(Parts, h)
        /\ result.op = "matches" =>
              result.ret = everyTail(Parts, 1, tree, result.node)

\* What the code does: the head and the tail are as said, and matches tests
\* every part once where no part has an attribute test.  The text from the
\* first "[" to the last "]" of the whole expression is tested on the view
\* as well, whichever part it was written in.
HeadAmongPartsOnTheView ==
    (pc = "styled" /\ cssSelector.kind = "CssCompositeSelector") =>
        /\ \E h \in OnTheView :
              /\ cssSelector.head = Parts[h]
              /\ \A i \in OnTheView : Parts[i].rarity <= Parts[h].rarity
              /\ cssSelector.tailSelectors = splice(Parts, h)
        /\ result.op = "matches" =>
              result.ret = andAlso(matchTail(cssSelector, tree[result.node]),
                                   everyTail(Parts, 1, tree, result.node))
HeadNotTheRightmost ==
    /\ pc = "styled" /\ cssSelector.kind = "CssCompositeSelector"
    /\ cssSelector.head # Parts[1]
    /\ result.op = "matches" /\ result.ret = Returned(TRUE)
    /\ \E i \in DOMAIN cssSelector.tailSelectors :
          cssSelector.tailSelectors[i].viewSearch = "Ancestor"

-----------------------------------------------------------------------------
(* File, FileAccess: readers and writers lock the file *)

\* a call that threw the value thrown
Threw(thrown) == [threw |-> TRUE, value |-> thrown]

LockedMessage == "Cannot access a locked file."

\* the file object an accessor holds in _file: the File, or undefined after
\* release
TheFile == 1
NoFileHeld == 0

\* new File() with file[pathProperty] = path: _locked is not set
File(path) == [path |-> path, locked |-> NoValue]

\* get isLocked(): this[fileLockedProperty]
isLocked(f) == f.locked

\* checkAccess(): throws when this.isLocked is truthy
checkAccess(f) ==
    IF isLocked(f) = "true" THEN Threw(LockedMessage) ELSE Returned(NoValue)

\* what a constructor or method of FileAccess leaves: the File, the
\* accessor, and whether it threw
Accessed(f, accessor, ret) == [file |-> f, accessor |-> accessor, ret |-> ret]

\* new FileReader(file), new FileWriter(file): the FileAccess constructor
\* keeps the file and sets file[fileLockedProperty] = true
FileAccess(kind, f) ==
    Accessed([f EXCEPT !.locked = "true"], [kind |-> kind, file |-> TheFile],
             Returned(kind))

\* release that keeps the accessor's file
releaseKeepsFile(accessor, f) ==
    Accessed([f EXCEPT !.locked = "false"], accessor, Returned(NoValue))

\* FileAccess.release(): this._file[fileLockedProperty] = false;
\* this._file = undefined.  On an accessor released before, this._file is
\* undefined and the assignment to its property throws a TypeError.
release(accessor, f) ==
    IF accessor.file = NoFileHeld
    THEN Accessed(f, accessor, Threw("TypeError"))
    ELSE Accessed([f EXCEPT !.locked = "false"],
                  [accessor EXCEPT !.file = NoFileHeld], Returned(NoValue))

\* file.openRead() and file.openWrite(): this.checkAccess(); return new
\* FileReader(this) or new FileWriter(this)
open(kind, f) ==
    IF checkAccess(f).threw THEN Accessed(f, NoValue, checkAccess(f))
    ELSE FileAccess(kind, f)

\* most accessors a run makes
MaxAccessors == 4

Open(kind, op) ==
    /\ pc = "file"
    /\ Len(accessors) < MaxAccessors
    /\ LET did == open(kind, file)
       IN  /\ file' = did.file
           /\ accessors' = IF did.ret.threw THEN accessors
                           ELSE Append(accessors, did.accessor)
           /\ result' = [op |-> op, sel |-> NoRef, ret |-> did.ret,
                         node |-> IF did.ret.threw THEN 0 ELSE Len(accessors) + 1]
    /\ UNCHANGED <<astRules, rulesets, selectorsMap, tree, pc, view, plays,
                   cssSelector, fileAccess>>

OpenRead == Open("FileReader", "openRead")
OpenWrite == Open("FileWriter", "openWrite")

\* accessor.release() for an accessor made before, released or not
Release ==
    /\ pc = "file"
    /\ \E a \in DOMAIN accessors :
          LET did == release(accessors[a], file)
          IN  /\ file' = did.file
              /\ accessors' = [accessors EXCEPT ![a] = did.accessor]
              /\ result' = [op |-> "release", sel |-> NoRef, ret |-> did.ret, node |-> a]
    /\ UNCHANGED <<astRules, rulesets, selectorsMap, tree, pc, view, plays,
                   cssSelector, fileAccess>>

PathNames == {<<"a">>, <<"b">>, <<"c">>}

InitFile ==
    /\ astRules = << >>
    /\ tree = << >>
    /\ rulesets = << >>
    /\ selectorsMap = EmptySelectorsMap
    /\ result = NoResult
    /\ view = NoView
    /\ plays = NoPlays
    /\ cssSelector = NoCssSelector
    /\ \E path \in PathNames : file = File(path)
    /\ accessors = NoAccessors
    /\ fileAccess = NoFileAccess
    /\ pc = "file"

NextFile == OpenRead \/ OpenWrite \/ Release

SpecFile == InitFile /\ [][NextFile]_vars

\* the accessors that were not released
Unreleased == {a \in DOMAIN accessors : accessors[a].file # NoFileHeld}

\* C21: under any sequence of openRead, openWrite and release on one File
\* at most one unreleased reader or writer exists; isLocked is true exactly
\* while one does; an open on the locked file fails with "Cannot access a
\* locked file." and changes nothing; an open on the unlocked file locks
\* it; a release of the unreleased accessor unlocks it, and the next open
\* succeeds.
C21_OneAccessorAtATime ==
    /\ [](/\ Cardinality(Unreleased) <= 1
          /\ (isLocked(file) = "true") <=> (Unreleased # {}))
    /\ [][/\ result'.op \in {"openRead", "openWrite"} =>
                IF Unreleased # {}
                THEN /\ result'.ret = Threw(LockedMessage)
                     /\ file' = file /\ accessors' = accessors
                ELSE /\ ~result'.ret.threw
                     /\ Unreleased' = {result'.node}
          /\ (result'.op = "release" /\ result'.node \in Unreleased) =>
                /\ ~result'.ret.threw
                /\ Unreleased' = {}
                /\ ~open("FileReader", file').ret.threw
                /\ ~open("FileWriter", file').ret.threw
          /\ (result'.op = "release" /\ result'.node \notin Unreleased) =>
                file' = file /\ accessors' = accessors]_vars
C21_Witness ==
    /\ Len(accessors) >= 3
    /\ Unreleased = {3}
    /\ accessors[1].kind # accessors[3].kind
    /\ result.op = "release" /\ result.node = 1 /\ result.ret.threw

-----------------------------------------------------------------------------
(* Folder.enumFiles *)

\* most paths the file-system access reports for a folder
MaxPaths == 4

RECURSIVE enumLoop(_, _)
\* for (i = 0; i < files.length; i++) { file = new File();
\* file[pathProperty] = files[i]; files.push(file); } from i on (i counted
\* from 0): the loop runs over files, the array it fills, not over paths
enumLoop(files, i) ==
    IF i < Len(files)
    THEN enumLoop(Append(files, File(files[i + 1])), i + 1)
    ELSE files

\* localSuccess(paths) of enumFiles: what onSuccess is called with
localSuccess(paths) == enumLoop(<< >>, 0)

\* folder.enumFiles(onSuccess, onError): the file-system access calls
\* localSuccess with the paths it finds, or onError
EnumFiles ==
    /\ pc = "folder"
    /\ result' = [op |-> "enumFiles", node |-> 0, sel |-> NoRef,
                  ret |-> IF fileAccess.fails THEN Threw(<< >>)
                          ELSE Returned(localSuccess(fileAccess.paths))]
    /\ pc' = "enumerated"
    /\ UNCHANGED <<astRules, rulesets, selectorsMap, tree, view, plays,
                   cssSelector, file, accessors, fileAccess>>

InitFolder ==
    /\ astRules = << >>
    /\ tree = << >>
    /\ rulesets = << >>
    /\ selectorsMap = EmptySelectorsMap
    /\ result = NoResult
    /\ view = NoView
    /\ plays = NoPlays
    /\ cssSelector = NoCssSelector
    /\ file = NoFile
    /\ accessors = NoAccessors
    /\ \E paths \in SeqsUpTo(PathNames, MaxPaths), fails \in BOOLEAN :
          fileAccess = [paths |-> paths, fails |-> fails]
    /\ pc = "folder"

NextFolder == EnumFiles

SpecFolder == InitFolder /\ [][NextFolder]_vars

\* C22: enumFiles passes onSuccess one File for each path the file-system
\* access reports for the folder, in the same order, each File's path being
\* the reported path.
C22_OneFilePerPath ==
    (result.op = "enumFiles" /\ ~result.ret.threw) =>
        /\ Len(result.ret.value) = Len(fileAccess.paths)
        /\ \A i \in DOMAIN fileAccess.paths :
              result.ret.value[i].path = fileAccess.paths[i]

\* What the code does: onSuccess always gets an empty array.
EnumFilesGivesNoFile ==
    (result.op = "enumFiles" /\ ~result.ret.threw) => result.ret.value = << >>
EnumeratedWithPaths ==
    result.op = "enumFiles" /\ ~result.ret.threw /\ Len(fileAccess.paths) = MaxPaths

-----------------------------------------------------------------------------
(* A single simple selector, stored unwrapped *)

\* the top-level selectors that createSelector stored unwrapped
Unwrapped == {ref \in Refs(rulesets) : Deref(rulesets, ref).kind \notin {"sequence", "selector"}}

\* the same simple selector in a sequence of one member, with the combinator
\* and rule set createSelector and RuleSet give a sequence
Wrapped(sel) ==
    [ruleset |-> sel.ruleset] @@
        [SimpleSelectorSequence(<<sel>>) EXCEPT !.combinator = sel.combinator]

\* the rule sets with every unwrapped selector wrapped
WrappedRuleSets ==
    [r \in DOMAIN rulesets |->
        [rulesets[r] EXCEPT !.selectors =
            [g \in DOMAIN rulesets[r].selectors |->
                IF <<r, g>> \in Unwrapped THEN Wrapped(rulesets[r].selectors[g])
                ELSE rulesets[r].selectors[g]]]]

\* C23: a selector of a single simple selector, stored unwrapped, behaves as
\* the same simple selector in a sequence of one member: the same match
\* result on every node, the same specificity, and filed in the same bucket
\* under the same key, so that the index is the same.
C23_UnwrappedIsTransparent ==
    /\ pc # "css" =>
          \A ref \in Unwrapped, n \in DOMAIN tree :
              match(Deref(rulesets, ref), tree, n) = match(Wrapped(Deref(rulesets, ref)), tree, n)
    /\ pc = "rulesets" =>
          /\ \A ref \in Unwrapped :
                LET sel == Deref(rulesets, ref)
                IN  /\ sel.specificity = Wrapped(sel).specificity
                    /\ lookupSort(sel) = lookupSort(Wrapped(sel))
          /\ SelectorsMap(WrappedRuleSets) = SelectorsMap(rulesets)
C23_Witness ==
    /\ result.op = "query" /\ ~result.ret.threw
    /\ \E i \in DOMAIN Returns :
          /\ Returns[i] \in Unwrapped
          /\ Deref(rulesets, Returns[i]).kind = "id"
          /\ match(Deref(rulesets, Returns[i]), tree, result.node) = Returned(TRUE)
    /\ \E ref \in Unwrapped : Deref(rulesets, ref).kind = "attribute"

-----------------------------------------------------------------------------
(* Chains of three parts on branches of four nodes *)

\* the nodes of a branch
ChainDepth == 4

\* a chain as selectorParser.parse reads it and as it is written
Chain(ast, text) == [ast |-> ast, text |-> text]

ThreePartChains ==
    {Chain(<<Tok("class", ClsA, ">"), Tok("type", Lbl, " "), Tok("type", Btn, NoValue)>>,
           <<".","a",">","l","b","l"," ","b","t","n">>),
     Chain(<<Tok("type", Lbl, ">"), Tok("class", ClsA, " "), Tok("type", Btn, NoValue)>>,
           <<"l","b","l",">",".","a"," ","b","t","n">>),
     Chain(<<Tok("type", Lbl, ">"), Tok("type", Lbl, " "), Tok("type", Btn, NoValue)>>,
           <<"l","b","l",">","l","b","l"," ","b","t","n">>),
     Chain(<<Tok("class", ClsA, " "), Tok("type", Lbl, " "), Tok("type", Btn, NoValue)>>,
           <<".","a"," ","l","b","l"," ","b","t","n">>),
     Chain(<<Tok("class", ClsA, ">"), Tok("type", Lbl, ">"), Tok("type", Btn, NoValue)>>,
           <<".","a",">","l","b","l",">","b","t","n">>),
     Chain(<<Tok("class", ClsA, " "), Tok("type", Lbl, ">"), Tok("type", Btn, NoValue)>>,
           <<".","a"," ","l","b","l",">","b","t","n">>)}

ChainKinds(parent) ==
    {Node(Undefined, Lbl, {ClsA}, NoAttrs, parent),
     Node(Undefined, Lbl, {}, NoAttrs, parent),
     Node(Undefined, Btn, {}, NoAttrs, parent)}

RECURSIVE Branches(_)
\* the trees that are one branch of n nodes, node 1 the root
Branches(n) ==
    IF n = 1 THEN {<<k>> : k \in ChainKinds(NoParent)}
    ELSE {Append(t, k) : t \in Branches(n - 1), k \in ChainKinds(n - 1)}

\* One chain, compiled by both implementations from the same text.
InitChain ==
    /\ \E chain \in ThreePartChains :
          /\ astRules = <<RuleNode(<<Parsed(chain.ast)>>, << >>)>>
          /\ cssSelector = createCssSelector(chain.text, << >>)
    /\ tree \in Branches(ChainDepth)
    /\ rulesets = << >>
    /\ selectorsMap = EmptySelectorsMap
    /\ result = NoResult
    /\ view = NoView
    /\ plays = NoPlays
    /\ file = NoFile
    /\ accessors = NoAccessors
    /\ fileAccess = NoFileAccess
    /\ pc = "css"

\* wrap(text): text ? ` ${text} ` : ""
wrap(text) ==
    IF text = NoValue \/ text = "" THEN << >> ELSE <<" ", text, " ">>

RECURSIVE joined(_, _)
\* texts.join(""), from text i on
joined(texts, i) ==
    IF i > Len(texts) THEN << >> ELSE texts[i] \o joined(texts, i + 1)

\* toString of the SimpleSelector classes that hold what they render
simpleToString(sel) ==
    CASE sel.kind = "universal" -> <<"*">> \o wrap(sel.combinator)
      [] sel.kind = "id"        -> <<"#">> \o sel.id \o wrap(sel.combinator)
      [] sel.kind = "type"      -> sel.cssType \o wrap(sel.combinator)
      [] sel.kind = "class"     -> <<".">> \o sel.cssClass \o wrap(sel.combinator)
      [] sel.kind = "pseudo"    -> <<":">> \o sel.cssPseudoClass \o wrap(sel.combinator)

\* SimpleSelectorSequence.toString
sequenceToString(sel) ==
    joined([i \in DOMAIN sel.selectors |-> simpleToString(sel.selectors[i])], 1)
        \o wrap(sel.combinator)

\* String(sel) for a member of a Selector, as join("") takes it
partToString(sel) ==
    IF sel.kind = "sequence" THEN sequenceToString(sel) ELSE simpleToString(sel)

\* Selector.toString: this.selectors.join("")
toString(sel) ==
    joined([i \in DOMAIN sel.selectors |-> partToString(sel.selectors[i])], 1)

\* sel.toString() for a Selector of the rule sets
SelectorToString ==
    /\ pc = "rulesets"
    /\ \E ref \in Refs(rulesets) :
          /\ Deref(rulesets, ref).kind = "selector"
          /\ result' = [op |-> "toString", node |-> 0, sel |-> ref,
                        ret |-> Returned(toString(Deref(rulesets, ref)))]
    /\ UNCHANGED <<astRules, rulesets, selectorsMap, tree, pc, view, plays, cssSelector, fsVars>>

NextChain == FromAstNodes \/ Match \/ ViewMatches \/ SelectorToString

SpecChain == InitChain /\ [][NextChain]_vars

\* the parts of the chain, the target's first, each with the combinator that
\* ties it to the part before it in this order
ChainParts == createSelector(astRules[1].selectors[1]).selectorsReversed

\* the ancestors of node n
Above(t, n) == 1..(n - 1)

RECURSIVE Chosen(_, _, _, _)
\* some choice of ancestors of node n satisfies part k and the parts after it
Chosen(parts, k, t, n) ==
    IF k > Len(parts) THEN TRUE
    ELSE IF parts[k].combinator = ">"
         THEN /\ t[n].parent # NoParent
              /\ partMatch(parts[k], t[t[n].parent])
              /\ Chosen(parts, k + 1, t, t[n].parent)
         ELSE \E m \in Above(t, n) :
                  partMatch(parts[k], t[m]) /\ Chosen(parts, k + 1, t, m)

\* the chain matches node n by some choice of ancestors
MatchesBySomeChoice(t, n) ==
    partMatch(ChainParts[1], t[n]) /\ Chosen(ChainParts, 2, t, n)

\* C24: a chain of three or more parts matches a node exactly when some
\* choice of ancestors satisfies every combinator: a > b c matches a node
\* matching c when some ancestor matching b has a parent matching a, also
\* when a nearer ancestor matches b and its parent does not match a.
C24_ChainMatchesBySomeChoice ==
    result.op \in {"match", "matches"} =>
        result.ret = Returned(MatchesBySomeChoice(tree, result.node))

\* What the code does: both matchers take the nearest ancestor that matches
\* a descendant part and never try a farther one, so they match only where
\* some choice does, and exactly there unless a child combinator stands
\* left of a descendant combinator.
NearestAncestorOnly ==
    result.op \in {"match", "matches"} =>
        /\ ~result.ret.threw
        /\ result.ret.value => MatchesBySomeChoice(tree, result.node)
        /\ ~(ChainParts[3].combinator = ">" /\ ChainParts[2].combinator = " ") =>
              result.ret.value = MatchesBySomeChoice(tree, result.node)
FartherAncestorMissed ==
    /\ result.op = "matches" /\ result.ret = Returned(FALSE)
    /\ MatchesBySomeChoice(tree, result.node)

-----------------------------------------------------------------------------
(* Attribute selectors on a node without the attribute, or with no value *)

\* the values a selector is written with: the text an absent attribute is
\* read as, parts of it, another word, and the empty value
EdgeValues ==
    {asString(Undefined), <<"u","n","d","e","f">>, <<"f","i","n","e","d">>, En, << >>}

\* the attributes a node holds: none, or the attribute with a value
EdgeAttrs ==
    {NoAttrs} \cup
    {[k \in {Lang} |-> a] :
        a \in {<< >>, En, <<"-","e","n">>, <<"e","n"," ">>, asString(Undefined)}}

\* One attribute selector, compiled by both implementations from the same
\* text, and one node.
InitEdge ==
    /\ \E test \in AttributeTests, value \in EdgeValues,
          quote \in {<< >>, <<"\"">>, <<"'">>} :
          /\ astRules = <<RuleNode(<<Parsed(<<AttrTok(Lang, test, value, NoValue)>>)>>, << >>)>>
          /\ cssSelector = CssSelector(AttributeText(Lang, test, value, quote), << >>)
    /\ \E attrs \in EdgeAttrs :
          tree = <<Node(Undefined, Btn, {}, attrs, NoParent)>>
    /\ rulesets = << >>
    /\ selectorsMap = EmptySelectorsMap
    /\ result = NoResult
    /\ view = NoView
    /\ plays = NoPlays
    /\ file = NoFile
    /\ accessors = NoAccessors
    /\ fileAccess = NoFileAccess
    /\ pc = "css"

NextEdge == FromAstNodes \/ Match \/ MatchTail

SpecEdge == InitEdge /\ [][NextEdge]_vars

\* the node does not hold the attribute of the selector under test
Absent == Written17.prop \notin DOMAIN tree[1].attrs

\* C25: an attribute selector with a test operator never matches a node on
\* which the attribute is absent, whatever the selector's value is; for the
\* AttributeSelector matcher and for matchesAttr alike.
C25_AbsentAttributeNeverMatches ==
    (result.op \in {"match", "matchTail"} /\ Absent) =>
        result.ret = Returned(FALSE)

\* What the code does: the AttributeSelector matcher tests the text
\* "undefined" in place of the absent attribute; matchesAttr looks for the
\* attribute first and matches nothing.
AbsentReadAsUndefined ==
    /\ (result.op = "match" /\ Absent /\ Written17.value # << >>) =>
          result.ret = Returned(Means(Written17.test, Written17.value, asString(Undefined)))
    /\ (result.op = "matchTail" /\ Absent) => result.ret = Returned(FALSE)
AbsentMatched ==
    /\ result.op = "match" /\ result.ret = Returned(TRUE)
    /\ Absent /\ Written17.test = "=" /\ Written17.value = asString(Undefined)
AbsentNotMatchedByMatchesAttr ==
    /\ result.op = "matchTail" /\ result.ret = Returned(FALSE)
    /\ Absent /\ Written17.test = "=" /\ Written17.value = asString(Undefined)

\* C26: an AttributeSelector constructed with a test operator and an empty
\* value matches no node, for every operator and every attribute value of
\* the node.
C26_EmptyValueNeverMatches ==
    (result.op = "match" /\ Written17.value = << >>) =>
        result.ret = Returned(FALSE)

\* What the code does: the matcher over the regular expression of the empty
\* value replaces node => false, so ^=, $= and *= match every node and =
\* matches the node whose attribute is the empty string.
EmptyValueMatchers ==
    (result.op = "match" /\ Written17.value = << >>) =>
        /\ Written17.test \in {"^=", "$=", "*="} => result.ret = Returned(TRUE)
        /\ Written17.test = "=" =>
              result.ret = Returned(Prop(tree[1], Written17.prop) = << >>)
EmptyValueMatched ==
    /\ result.op = "match" /\ result.ret = Returned(TRUE)
    /\ Written17.value = << >> /\ Written17.test = "^="
    /\ ~Absent /\ Prop(tree[1], Written17.prop) = En

-----------------------------------------------------------------------------
(* The order of the parts a Selector keeps *)

\* the list createSelector passes to the Selector constructor, as it is
\* before the call: the parts in the order they are written
WrittenParts ==
    LET ast == astRules[1].selectors[1].ast
    IN  joinSequences(ast, [i \in DOMAIN ast |-> createSimpleSelector(ast[i])], 1, 1, << >>)

\* the parts rendered one after the other
Rendered(parts) == joined([i \in DOMAIN parts |-> partToString(parts[i])], 1)

\* C27: constructing a Selector leaves its public selectors field, which is
\* the caller's list, in written order, only selectorsReversed is
\* target-first, and toString renders the parts in the order they were
\* written.
C27_SelectorsKeepWrittenOrder ==
    result.op = "toString" =>
        LET sel == Deref(rulesets, result.sel)
        IN  /\ sel.selectors = WrittenParts
            /\ sel.selectorsReversed = reverse(WrittenParts)
            /\ result.ret = Returned(Rendered(WrittenParts))

\* What the code does: reverse() turns the caller's list around in place, the
\* public field and selectorsReversed are that one list, and toString renders
\* the target first.
SelectorsReversedInPlace ==
    result.op = "toString" =>
        LET sel == Deref(rulesets, result.sel)
        IN  /\ sel.selectors = reverse(WrittenParts)
            /\ sel.selectorsReversed = reverse(WrittenParts)
            /\ result.ret = Returned(Rendered(reverse(WrittenParts)))
RenderedTargetFirst ==
    /\ result.op = "toString"
    /\ result.ret = Returned(<<"b","t","n","l","b","l"," "," "," ",".","a"," ",">"," ">>)

====
